---- MODULE Spec2Model ----
(***************************************************************************)
(* Model of the crawl orchestration engine and the result normalizer of    *)
(* the Smart Economic Decision Engine.                                     *)
(*                                                                         *)
(*   src/src/crawler/crawler_manager.py   CrawlerManager                   *)
(*   src/src/crawler/base_crawler.py      BaseCrawler                      *)
(*   src/src/crawler/data_normalizer.py   DataNormalizer                   *)
(*                                                                         *)
(* and of the chatbot that turns a message into search queries, with the   *)
(* pipeline that joins the two.                                            *)
(*                                                                         *)
(*   src/src/chatbot/intent_classifier.py IntentClassifier                 *)
(*   src/src/chatbot/entity_extractor.py  EntityExtractor                  *)
(*   src/src/chatbot/nlu.py               NLUProcessor                     *)
(*   src/src/chatbot/query_generator.py   QueryGenerator                   *)
(*   src/src/chatbot/engine.py            ChatbotEngine                    *)
(*   src/src/integration.py               SEDEIntegration                  *)
(*                                                                         *)
(* Scores in [0,1] are kept as integer percents (0.9 is 90).  Amounts of   *)
(* money, which the program keeps in millions of Tomans, are kept in       *)
(* thousandths of a million (600.0 is 600000, 0.5 is 500).                 *)
(***************************************************************************)
EXTENDS Integers, Sequences, FiniteSets, TLC

\* ------------------------------------------------------------------------
\* Bounds of the model
\* ------------------------------------------------------------------------
\* longest request list handed to crawl_batch
MaxQueries == 2
\* most raw records extract_items returns for the pages of one call, in equal
\* shares for its requests
MaxRaw == 2
\* most CrawlResults in a CrawlBatchResult handed to normalize_batch
MaxResults == 2
\* most CrawledItems, over all its results, in such a CrawlBatchResult
MaxItems == 3
\* most words in a message handed to the chatbot
MaxWords == 4
\* most SearchGoals in a StructuredQuery handed to generate_queries
MaxGoals == 2
\* the entries one session's history holds, at most
MaxHistory == 2

\* ------------------------------------------------------------------------
\* Program constants
\* ------------------------------------------------------------------------
\* BaseCrawler.retry_times, the default of config 'retry_times'
retry_times == 3

\* config 'max_workers' of the managers modelled: one worker, and a pool
PoolSizes == {1, 2}

\* Sites the manager has a crawler for, by fetch transport
\* (CrawlerManager._initialize_crawlers: 'use_selenium' True / False).
SeleniumSites == {"divar"}
RequestsSites == {"torob"}
crawlers == SeleniumSites \cup RequestsSites
\* a site name the manager has no crawler for
UnknownSite == "nosite"
SiteNames == crawlers \cup {UnknownSite}

use_selenium(site) == site \in SeleniumSites

\* None for a reference to a browser instance, a page or a request
None == 0

VARIABLES
    phase,        \* what the manager's caller is doing: "idle", "batch" (inside
                  \* crawl_batch), "returned" (holding its result), "cleaned"
    max_workers,  \* CrawlerManager.max_workers
    queries,      \* the request list of the current crawl_batch call (site names;
                  \* request i carries goal_id i and asks for its own url i)
    parallel,     \* crawl_batch: parallel and len(queries) > 1
    tasks,        \* per request: the position of its crawl_site call and its locals
    results,      \* the results list of _crawl_sequential / _crawl_parallel
    batch_result, \* the CrawlBatchResult crawl_batch returned, or NoBatch
    driver,       \* per selenium crawler: BaseCrawler._driver (instance id or None)
    browsers,     \* every browser instance created: id -> [site, open, page]
    batch_in,     \* normalize_batch: its argument, the results of a CrawlBatchResult
    normalized,   \* normalize_batch: the dictionary it returned, or NotNormalized
    message,      \* the user_message of process_user_request, or the message of
                  \* process_message with a session: [is_str, words]
    turn,         \* where that call is: "typing" (not yet called), "replied"
                  \* (process_message returned), "returned"
    response,     \* the ChatbotResponse process_message returned, or NoResponse
    calls,        \* how often the call built a StructuredQuery, generated
                  \* search queries and started a crawl
    envelope,     \* the dictionary process_user_request returned, or NoEnvelope
    set_order,    \* the order in which this process iterates a set of two strings
    conversation_history, \* ChatbotEngine.conversation_history: per session id
                  \* Nothing (no such key) or Some(the list of its entries)
    request,      \* the last call on the engine with a session: its name and
                  \* its session_id and context arguments
    search_goals, \* generate_queries: the goals of its StructuredQuery
    rejected,     \* how many SearchGoal constructions raised a validation error
    search_queries \* generate_queries: the list it returned, or Nothing

crawl_vars == <<phase, max_workers, queries, parallel, tasks, results,
                batch_result, driver, browsers>>

normalizer_vars == <<batch_in, normalized>>

chatbot_vars == <<message, turn, response, calls, envelope, set_order,
                  conversation_history, request>>

generator_vars == <<search_goals, rejected, search_queries>>

vars == <<crawl_vars, normalizer_vars, chatbot_vars, generator_vars>>

\* ------------------------------------------------------------------------
\* Data
\* ------------------------------------------------------------------------
RECURSIVE SumSeq(_)
SumSeq(s) == IF s = <<>> THEN 0 ELSE Head(s) + SumSeq(Tail(s))

\* schemas.CrawlResult; req is the request the result answers (future_to_query)
CrawlResult(req, success, site_name, items, errors) ==
    [req |-> req, success |-> success, site_name |-> site_name, items |-> items,
     total_items |-> Len(items), errors |-> errors]

NoResult == [req |-> None, success |-> FALSE, site_name |-> "", items |-> <<>>,
             total_items |-> 0, errors |-> <<>>]

\* crawl_site: no crawler for the site
NotFoundResult(req, site) ==
    CrawlResult(req, FALSE, site, <<>>, <<"Crawler not found for site">>)

\* crawl: fetch_page returned nothing
FetchFailedResult(req, site) ==
    CrawlResult(req, FALSE, site, <<>>, <<"Failed to fetch page content">>)

\* crawl: the outer except
ExceptionResult(req, site) ==
    CrawlResult(req, FALSE, site, <<>>, <<"exception">>)

\* schemas.CrawlBatchResult
NoBatch == [returned |-> FALSE, success |-> FALSE, results |-> <<>>, total_items |-> 0]

\* a task: pc is the position in crawl_site -> crawl -> fetch_page; att counts
\* the fetch attempts made; drv is the local 'driver' of _fetch_with_selenium;
\* html is the request whose page the fetched content is; res is the CrawlResult
\* crawl_site returned.  For the record: cause is how the crawl ended, raw_items
\* the number of records extract_items returned and raised the records for
\* which normalize_item raised.
QueuedTask == [pc |-> "queued", att |-> 0, drv |-> None, html |-> None,
               res |-> NoResult, cause |-> "", raw_items |-> 0, raised |-> {}]

Requests == DOMAIN tasks

\* the task moves on inside crawl_site
Step(i, t) ==
    /\ tasks' = [tasks EXCEPT ![i] = t]
    /\ UNCHANGED results

\* the task as crawl_site returns res
Ended(i, cause, att, res) ==
    [tasks[i] EXCEPT !.pc = "done", !.cause = cause, !.att = att, !.res = res]

\* as Return, with the result of a failed crawl left out of results
ReturnUnlessFailed(i, t) ==
    /\ tasks' = [tasks EXCEPT ![i] = t]
    /\ results' = IF t.res.success THEN Append(results, t.res) ELSE results

\* crawl_site returns t.res, and results.append(result) follows: in the loop of
\* _crawl_sequential, or when as_completed yields the finished future
Return(i, t) ==
    /\ tasks' = [tasks EXCEPT ![i] = t]
    /\ results' = Append(results, t.res)

\* ------------------------------------------------------------------------
\* BaseCrawler.crawl, the loop over raw_items: raw records 1..k in extraction
\* order, normalize_item raises for the records in bad and returns a
\* CrawledItem for the others.  An item keeps the record it came from, the
\* goal_id it was tagged with and the page it was extracted from.
\* ------------------------------------------------------------------------
\* as NormalizedItems, with the loop left at the first record that raises
RECURSIVE NormalizedItemsUntilRaise(_, _, _, _, _)
NormalizedItemsUntilRaise(r, k, bad, goal_id, html) ==
    IF r > k \/ r \in bad THEN <<>>
    ELSE <<[raw |-> r, goal_id |-> goal_id, page |-> html]>>
         \o NormalizedItemsUntilRaise(r + 1, k, bad, goal_id, html)

RECURSIVE NormalizedItems(_, _, _, _, _)
NormalizedItems(r, k, bad, goal_id, html) ==
    IF r > k THEN <<>>
    ELSE (IF r \in bad THEN <<>>
          ELSE <<[raw |-> r, goal_id |-> goal_id, page |-> html]>>)
         \o NormalizedItems(r + 1, k, bad, goal_id, html)

RECURSIVE NormalizationErrors(_, _, _)
NormalizationErrors(r, k, bad) ==
    IF r > k THEN <<>>
    ELSE (IF r \in bad THEN <<"Normalization error">> ELSE <<>>)
         \o NormalizationErrors(r + 1, k, bad)

\* crawl, after a fetch that returned content: the result for k raw records
CrawlSuccess(i, k, bad) ==
    CrawlResult(i, TRUE, queries[i],
                NormalizedItems(1, k, bad, i, tasks[i].html),
                NormalizationErrors(1, k, bad))

\* ------------------------------------------------------------------------
\* crawl_batch
\* ------------------------------------------------------------------------
QueryLists == UNION {[1..n -> SiteNames] : n \in 0..MaxQueries}

\* crawl_batch is called: results = [], and the mode is chosen
CrawlBatch(qs, par) ==
    /\ phase = "idle"
    /\ phase' = "batch"
    /\ queries' = qs
    /\ parallel' = (par /\ Len(qs) > 1)
    /\ tasks' = [i \in 1..Len(qs) |-> QueuedTask]
    /\ results' = <<>>
    /\ UNCHANGED <<max_workers, batch_result, driver, browsers>>

Running == {i \in Requests : tasks[i].pc \notin {"queued", "done"}}

\* _crawl_sequential: the loop is at request i;
\* _crawl_parallel: a worker of the pool is free and takes the oldest queued task
MayStart(i) ==
    /\ tasks[i].pc = "queued"
    /\ IF parallel
       THEN /\ Cardinality(Running) < max_workers
            /\ \A j \in Requests : j < i => tasks[j].pc # "queued"
       ELSE \A j \in Requests : j < i => tasks[j].pc = "done"

\* crawl_site up to fetch_page: get_crawler, build_search_url, transport choice
CrawlSite(i) ==
    /\ MayStart(i)
    /\ IF queries[i] \notin crawlers
       THEN Return(i, Ended(i, "no crawler", 0, NotFoundResult(i, queries[i])))
       ELSE Step(i, [tasks[i] EXCEPT
                !.pc = IF use_selenium(queries[i]) THEN "get_driver" ELSE "requests"])
    /\ UNCHANGED <<phase, max_workers, queries, parallel, batch_result, driver,
                   browsers>>

\* get_driver: the test 'self._driver is None'
GetDriver(i) ==
    /\ tasks[i].pc = "get_driver"
    /\ Step(i, IF driver[queries[i]] = None
               THEN [tasks[i] EXCEPT !.pc = "create"]
               ELSE [tasks[i] EXCEPT !.pc = "get", !.drv = driver[queries[i]]])
    /\ UNCHANGED <<phase, max_workers, queries, parallel, batch_result, driver,
                   browsers>>

NewBrowser == Cardinality(DOMAIN browsers) + 1

\* get_driver: self._driver = webdriver.Chrome(...), or Chrome raises and the
\* exception reaches the outer except of crawl
CreateDriver(i) ==
    /\ tasks[i].pc = "create"
    /\ \/ /\ browsers' = [b \in DOMAIN browsers \cup {NewBrowser} |->
                            IF b = NewBrowser
                            THEN [site |-> queries[i], open |-> TRUE, page |-> None]
                            ELSE browsers[b]]
          /\ driver' = [driver EXCEPT ![queries[i]] = NewBrowser]
          /\ Step(i, [tasks[i] EXCEPT !.pc = "get", !.drv = NewBrowser])
       \/ /\ Return(i, Ended(i, "driver", 0, ExceptionResult(i, queries[i])))
          /\ UNCHANGED <<driver, browsers>>
    /\ UNCHANGED <<phase, max_workers, queries, parallel, batch_result>>

\* _fetch_with_selenium: driver.get(url) loads the page of request i, or raises
\* and the fetch returns None after this one attempt
SeleniumGet(i) ==
    /\ tasks[i].pc = "get"
    /\ \/ /\ browsers' = [browsers EXCEPT ![tasks[i].drv].page = i]
          /\ Step(i, [tasks[i] EXCEPT !.pc = "page_source", !.att = 1])
       \/ /\ Return(i, Ended(i, "fetch", 1, FetchFailedResult(i, queries[i])))
          /\ UNCHANGED browsers
    /\ UNCHANGED <<phase, max_workers, queries, parallel, batch_result, driver>>

\* _fetch_with_selenium: after the settle delay, return driver.page_source
PageSource(i) ==
    /\ tasks[i].pc = "page_source"
    /\ Step(i, [tasks[i] EXCEPT !.pc = "extract",
                                !.html = browsers[tasks[i].drv].page])
    /\ UNCHANGED <<phase, max_workers, queries, parallel, batch_result, driver,
                   browsers>>

\* _fetch_with_requests: one pass of the loop 'for attempt in range(retry_times)'
RequestsGet(i) ==
    /\ tasks[i].pc = "requests"
    /\ tasks[i].att < retry_times
    /\ LET attempt == tasks[i].att IN
       \/ \* response.text, a page
          Step(i, [tasks[i] EXCEPT !.pc = "extract", !.att = attempt + 1,
                                   !.html = i])
       \/ \* response.text is the empty string: crawl takes 'not html_content'
          Return(i, Ended(i, "empty", attempt + 1, FetchFailedResult(i, queries[i])))
       \/ \* the attempt raises: sleep and go round again, or give up
          IF attempt < retry_times - 1
          THEN Step(i, [tasks[i] EXCEPT !.att = attempt + 1])
          ELSE Return(i, Ended(i, "fetch", attempt + 1, FetchFailedResult(i, queries[i])))
    /\ UNCHANGED <<phase, max_workers, queries, parallel, batch_result, driver,
                   browsers>>

\* the raw records one page yields in the model
RawBound == IF queries = <<>> THEN 0 ELSE MaxRaw \div Len(queries)

\* crawl, from extract_items to the return: extract_items raises (outer except),
\* or returns k raw records that are normalized one by one
Extract(i) ==
    /\ tasks[i].pc = "extract"
    /\ \/ Return(i, Ended(i, "extract", tasks[i].att, ExceptionResult(i, queries[i])))
       \/ \E k \in 0..RawBound : \E bad \in SUBSET (1..k) :
            Return(i, [Ended(i, "ok", tasks[i].att, CrawlSuccess(i, k, bad))
                       EXCEPT !.raw_items = k, !.raised = bad])
    /\ UNCHANGED <<phase, max_workers, queries, parallel, batch_result, driver,
                   browsers>>

\* the loops are over: every query was crawled (sequential), as_completed has
\* yielded every future and the executor has shut down (parallel)
AllReturned == \A i \in Requests : tasks[i].pc = "done"

TotalItems(rs) == SumSeq([n \in DOMAIN rs |-> rs[n].total_items])

\* as AnySuccess, with all() for any()
AllSuccess(rs) == \A n \in DOMAIN rs : rs[n].success

AnySuccess(rs) == \E n \in DOMAIN rs : rs[n].success

\* crawl_batch returns its CrawlBatchResult
ReturnBatch ==
    /\ phase = "batch"
    /\ AllReturned
    /\ batch_result' = [returned |-> TRUE, success |-> AnySuccess(results),
                        results |-> results, total_items |-> TotalItems(results)]
    /\ phase' = "returned"
    /\ UNCHANGED <<max_workers, queries, parallel, tasks, results, driver, browsers>>

\* the pages the browsers show are left over from the call that is over
StalePages == [b \in DOMAIN browsers |-> [browsers[b] EXCEPT !.page = None]]

\* the caller is done with the CrawlBatchResult; the locals of the call are gone
DropResult ==
    /\ phase = "returned"
    /\ phase' = "idle"
    /\ queries' = <<>>
    /\ parallel' = FALSE
    /\ tasks' = <<>>
    /\ results' = <<>>
    /\ batch_result' = NoBatch
    /\ browsers' = StalePages
    /\ UNCHANGED <<max_workers, driver>>

\* ------------------------------------------------------------------------
\* cleanup: close_driver on every crawler.  quit() may raise; cleanup logs it
\* and goes on, _driver stays set and the browser may or may not be gone.
\* ------------------------------------------------------------------------
close_driver(s, quits) ==
    IF driver[s] # None /\ quits THEN None ELSE driver[s]

Cleanup ==
    /\ phase = "idle"
    /\ \E quits \in [SeleniumSites -> BOOLEAN] : \E dies \in [SeleniumSites -> BOOLEAN] :
          /\ \A s \in SeleniumSites : driver[s] = None => (quits[s] /\ dies[s])
          /\ \A s \in SeleniumSites : quits[s] => dies[s]
          /\ driver' = [s \in SeleniumSites |-> close_driver(s, quits[s])]
          /\ browsers' = [b \in DOMAIN browsers |->
                            IF b = driver[browsers[b].site] /\ dies[browsers[b].site]
                            THEN [browsers[b] EXCEPT !.open = FALSE]
                            ELSE browsers[b]]
    /\ phase' = "cleaned"
    /\ UNCHANGED <<max_workers, queries, parallel, tasks, results, batch_result>>

\* ------------------------------------------------------------------------
\* DataNormalizer
\* ------------------------------------------------------------------------
\* Optional[T]: None, or a value
Nothing == <<>>
Some(x) == <<x>>

\* Python truthiness of an Optional[str], an Optional[float], a list or a dict
Truthy(opt) == opt # Nothing /\ opt[1] # ""
TruthyNumber(opt) == opt # Nothing /\ opt[1] # 0
TruthyList(list) == list # <<>>
TruthyDict(keys) == keys # {}

\* The listings of the model and the sites that carry them.  Listing "u1" is a
\* full card (price, place, picture, text with stray blanks), "u2" a bare one
\* (title and link only).
Urls == {"u1", "u2"}
SourceSites == {"divar", "bama"}
RichCard(u) == u = "u1"

\* DivarCrawler.normalize_item on the card of listing u
DivarItem(u) ==
    [item_id |-> u, source_site |-> "divar",
     title |-> IF RichCard(u) THEN " flat  2br" ELSE "flat",
     description |-> Nothing, url |-> u,
     price |-> IF RichCard(u) THEN Some(600) ELSE Nothing,
     price_text |-> IF RichCard(u) THEN Some("600 m") ELSE Nothing,
     price_type |-> Nothing,
     location |-> IF RichCard(u) THEN Some("Tehran") ELSE Some(""),
     city |-> Some("tehran_fa"),
     district |-> IF RichCard(u) THEN Some("Tehran") ELSE Nothing,
     images |-> IF RichCard(u) THEN <<"img">> ELSE <<>>,
     thumbnail |-> IF RichCard(u) THEN Some("img") ELSE Nothing,
     properties |-> {"raw_data"}, goal_id |-> Some(1),
     confidence_score |-> 90, completeness_score |-> 100, crawled_at |-> "t0"]

\* BamaCrawler.normalize_item on the card of listing u
BamaItem(u) ==
    [item_id |-> u, source_site |-> "bama",
     title |-> IF RichCard(u) THEN "car " ELSE "car",
     description |-> IF RichCard(u) THEN Some("2020  white") ELSE Nothing,
     url |-> u,
     price |-> IF RichCard(u) THEN Some(0) ELSE Nothing,
     price_text |-> IF RichCard(u) THEN Some("call") ELSE Nothing,
     price_type |-> Some("cash"),
     location |-> Nothing, city |-> Nothing, district |-> Nothing,
     images |-> IF RichCard(u) THEN <<"img">> ELSE <<>>,
     thumbnail |-> IF RichCard(u) THEN Some("img") ELSE Nothing,
     properties |-> {"vehicle_type", "raw_data"}, goal_id |-> Some(2),
     confidence_score |-> 90, completeness_score |-> 100, crawled_at |-> "t0"]

\* CrawledItem(item_id, source_site, title, url): every other field at the
\* default of the schema
PlainItem(u) ==
    [item_id |-> u, source_site |-> "feed", title |-> "lot", description |-> Nothing,
     url |-> u, price |-> Nothing, price_text |-> Nothing, price_type |-> Nothing,
     location |-> Nothing, city |-> Nothing, district |-> Nothing,
     images |-> <<>>, thumbnail |-> Nothing, properties |-> {}, goal_id |-> Nothing,
     confidence_score |-> 100, completeness_score |-> 100, crawled_at |-> "t0"]

CrawledItems ==
    {DivarItem(u) : u \in Urls} \cup {BamaItem(u) : u \in Urls}
        \cup {PlainItem(u) : u \in Urls}

\* _normalize_text: ' '.join(text.split()), on the texts of the model
normalize_text(text) ==
    CASE text = " flat  2br" -> "flat 2br"
      [] text = "car " -> "car"
      [] text = "2020  white" -> "2020 white"
      [] OTHER -> text

\* _normalize_location: the lower-cased name looked up in location_map, else
\* the name stripped
normalize_location(location) ==
    CASE location = "Tehran" -> "tehran_fa"
      [] OTHER -> location

\* as calculate_completeness, with the score the item came with kept
supplied_completeness(item) == item.completeness_score

\* _calculate_completeness, in percent: min(score / max_score, 1.0), the
\* weights counted in twentieths of max_score
calculate_completeness(item) ==
    LET score ==
          (IF item.title # "" THEN 2 ELSE 0)
        + (IF item.url # "" THEN 2 ELSE 0)
        + (IF TruthyNumber(item.price) \/ Truthy(item.price_text) THEN 3 ELSE 0)
        + (IF Truthy(item.location) THEN 2 ELSE 0)
        + (IF TruthyList(item.images) THEN 2 ELSE 0)
        + (IF Truthy(item.description) THEN 1 ELSE 0)
        + (IF Truthy(item.city) THEN 1 ELSE 0)
        + (IF Truthy(item.district) THEN 1 ELSE 0)
        + (IF TruthyDict(item.properties) THEN 2 ELSE 0)
    IN  IF score * 5 < 100 THEN score * 5 ELSE 100

\* _normalize_item: the dictionary built from the item, then
\* {k: v for k, v in normalized.items() if v is not None}
normalize_item(item) ==
    LET built ==
          [item_id |-> Some(item.item_id),
           source_site |-> Some(item.source_site),
           title |-> Some(normalize_text(item.title)),
           description |-> IF Truthy(item.description)
                           THEN Some(normalize_text(item.description[1]))
                           ELSE Nothing,
           url |-> Some(item.url),
           price |-> item.price,
           price_text |-> item.price_text,
           price_type |-> item.price_type,
           location |-> IF Truthy(item.location)
                        THEN Some(normalize_location(item.location[1]))
                        ELSE Nothing,
           city |-> item.city,
           district |-> item.district,
           images |-> Some(item.images),
           thumbnail |-> item.thumbnail,
           properties |-> Some(item.properties),
           goal_id |-> item.goal_id,
           confidence_score |-> Some(item.confidence_score),
           completeness_score |-> Some(calculate_completeness(item)),
           crawled_at |-> Some(item.crawled_at)]
    IN  [k \in {f \in DOMAIN built : built[f] # Nothing} |-> built[k][1]]

\* as all_items, with the collection ended at the first failed result
RECURSIVE all_items_until_failed(_)
all_items_until_failed(rs) ==
    IF rs = <<>> \/ ~Head(rs).success THEN <<>>
    ELSE Head(rs).items \o all_items_until_failed(Tail(rs))

\* normalize_batch, 'Collect all items': the items of the results that succeeded
RECURSIVE all_items(_)
all_items(rs) ==
    IF rs = <<>> THEN <<>>
    ELSE (IF Head(rs).success THEN Head(rs).items ELSE <<>>) \o all_items(Tail(rs))

\* as normalized_items, with the last item of a url kept instead of the first
RECURSIVE normalized_items_last(_, _)
normalized_items_last(items, seen_urls) ==
    IF items = <<>> THEN <<>>
    ELSE IF \E n \in DOMAIN Tail(items) : Tail(items)[n].url = Head(items).url
         THEN normalized_items_last(Tail(items), seen_urls)
         ELSE <<normalize_item(Head(items))>>
              \o normalized_items_last(Tail(items), seen_urls)

\* normalize_batch, the loop over all_items: an item whose url was seen is
\* passed over, the others are normalized and appended
RECURSIVE normalized_items(_, _)
normalized_items(items, seen_urls) ==
    IF items = <<>> THEN <<>>
    ELSE IF Head(items).url \in seen_urls
         THEN normalized_items(Tail(items), seen_urls)
         ELSE <<normalize_item(Head(items))>>
              \o normalized_items(Tail(items), seen_urls \cup {Head(items).url})

\* as KeyLess, with the confidence alone compared
ConfidenceLess(a, b) == a[1] < b[1]

\* the sort key of normalize_batch, compared as Python compares tuples
SortKey(x) == <<x.confidence_score, x.completeness_score>>
KeyLess(a, b) == a[1] < b[1] \/ (a[1] = b[1] /\ a[2] < b[2])

\* list.sort(key=..., reverse=True): descending and stable.  Insert x behind
\* every element whose key is not less than the key of x.
RECURSIVE InsertDescending(_, _)
InsertDescending(sorted, x) ==
    IF sorted = <<>> THEN <<x>>
    ELSE IF KeyLess(SortKey(Head(sorted)), SortKey(x))
         THEN <<x>> \o sorted
         ELSE <<Head(sorted)>> \o InsertDescending(Tail(sorted), x)

RECURSIVE SortDescending(_, _)
SortDescending(items, sorted) ==
    IF items = <<>> THEN sorted
    ELSE SortDescending(Tail(items), InsertDescending(sorted, Head(items)))

\* as duplicates_removed, counting the urls that came more than once
duplicated_urls(collected, emitted) ==
    Cardinality({u \in {collected[n].url : n \in DOMAIN collected} :
                    Cardinality({n \in DOMAIN collected : collected[n].url = u}) > 1})

\* metadata 'duplicates_removed'
duplicates_removed(collected, emitted) == Len(collected) - Len(emitted)

NotNormalized ==
    [success |-> FALSE, total_items |-> 0, items |-> <<>>, sources |-> {},
     metadata |-> [normalization_applied |-> FALSE, duplicates_removed |-> 0]]

\* as normalize_batch, with the success of the CrawlBatchResult for its own
normalize_batch_with_batch_success(rs) ==
    LET collected == all_items(rs)
        emitted == SortDescending(normalized_items(collected, {}), <<>>)
    IN  [success |-> AnySuccess(rs),
         total_items |-> Len(emitted),
         items |-> emitted,
         sources |-> {emitted[n].source_site : n \in DOMAIN emitted},
         metadata |-> [normalization_applied |-> TRUE,
                       duplicates_removed |-> duplicates_removed(collected, emitted)]]

normalize_batch(rs) ==
    LET collected == all_items(rs)
        emitted == SortDescending(normalized_items(collected, {}), <<>>)
    IN  [success |-> TRUE,
         total_items |-> Len(emitted),
         items |-> emitted,
         sources |-> {emitted[n].source_site : n \in DOMAIN emitted},
         metadata |-> [normalization_applied |-> TRUE,
                       duplicates_removed |-> duplicates_removed(collected, emitted)]]

\* The CrawlBatchResults handed to normalize_batch: at most MaxResults results
\* holding at most MaxItems items in all.  A result is the pair normalize_batch
\* reads, success and items; the batch grows result by result and item by item
\* before it is normalized.
ItemCount(rs) == SumSeq([n \in DOMAIN rs |-> Len(rs[n].items)])

AppendResult(ok) ==
    /\ normalized = NotNormalized
    /\ Len(batch_in) < MaxResults
    /\ batch_in' = Append(batch_in, [success |-> ok, items |-> <<>>])
    /\ UNCHANGED <<normalized, crawl_vars>>

AppendItem(item) ==
    /\ normalized = NotNormalized
    /\ batch_in # <<>>
    /\ ItemCount(batch_in) < MaxItems
    /\ batch_in' = [batch_in EXCEPT ![Len(batch_in)].items = Append(@, item)]
    /\ UNCHANGED <<normalized, crawl_vars>>

NormalizeBatch ==
    /\ normalized = NotNormalized
    /\ normalized' = normalize_batch(batch_in)
    /\ UNCHANGED <<batch_in, crawl_vars>>

\* ------------------------------------------------------------------------
\* The chatbot: texts
\* ------------------------------------------------------------------------
\* A text is a sequence of words separated by single blanks.  The words of the
\* model, each standing for the word of the source given beside it:
\*   "2", "600"   numerals
\*   "milyoon"    the million unit       "hezar"    the thousand unit
\*   "milyard"    the billion unit       "salam"    the greeting
\*   "mikhaham"   'I want'               "kharid"   'purchase'
\*   "mashin"     'car'                  "ghest"    'installment'
\*   "vam"        'loan'                 "ekbatan"  the district Ekbatan
Numerals == {"2", "600"}
Units == {"milyoon", "hezar", "milyard"}
Vocabulary ==
    Numerals \cup Units
        \cup {"salam", "mikhaham", "kharid", "mashin", "ghest", "vam", "ekbatan"}

\* the words of the texts given to the entity extractor for their search
\* type and their locations
SearchVocabulary ==
    {"rahn", "kharid", "mashin", "otomobil", "ghest", "ekbatan", "tehran"}

\* float(value_str)
NumeralValue(w) == IF w = "2" THEN 2 ELSE 600

\* len(w): the characters of the word
Chars(w) ==
    CASE w = "2" -> 1
      [] w \in {"600", "ghest", "vam", "rahn"} -> 3
      [] w \in {"salam", "kharid", "hezar"} -> 4
      [] w \in {"mashin", "tehran"} -> 5
      [] w = "milyoon" -> 6
      [] w \in {"milyard", "ekbatan", "otomobil"} -> 7
      [] OTHER -> 8

\* the words that begin with the letter mim, which the alternative of one
\* letter in the unit group '(?:million|milion|m|M)' of the patterns matches
BeginsWithMim == {"milyoon", "milyard", "mashin", "mikhaham"}

\* len(text.strip())
TextLen(words) ==
    IF words = <<>> THEN 0
    ELSE SumSeq([n \in DOMAIN words |-> Chars(words[n])]) + Len(words) - 1

Contains(words, w) == \E n \in DOMAIN words : words[n] = w

\* ------------------------------------------------------------------------
\* IntentClassifier
\* ------------------------------------------------------------------------
\* the intents of intent_keywords, in the order of the dictionary
IntentOrder == <<"search", "compare", "advice", "calculate", "greeting">>

\* len(keywords) of each intent
KeywordCount ==
    [search |-> 12, compare |-> 9, advice |-> 9, calculate |-> 8, greeting |-> 8]

\* the keywords of intent that are substrings of a text with these words: of
\* all keywords, 'I want' and 'purchase' (search) and the greeting (greeting)
\* are substrings of words of the model, each of the word itself
KeywordsIn(words, intent) ==
    CASE intent = "search" -> {w \in {"mikhaham", "kharid"} : Contains(words, w)}
      [] intent = "greeting" -> {w \in {"salam"} : Contains(words, w)}
      [] OTHER -> {}

\* classify_by_keywords: min(matches / len(keywords) * 2, 1.0), in units of 1/72
KeywordScore(words, intent) ==
    LET matches == Cardinality(KeywordsIn(words, intent))
        score == (matches * 144) \div KeywordCount[intent]
    IN  IF score < 72 THEN score ELSE 72

\* classify_by_patterns: of all patterns only the first of search,
\* 'I want' \s+ (.+?) \s+ (... | 'purchase'), matches texts of the model
PatternMatches(words, intent) ==
    /\ intent = "search"
    /\ \E m, n \in DOMAIN words :
          m + 1 < n /\ words[m] = "mikhaham" /\ words[n] = "kharid"

\* classify, 'Merge results': keyword score * 0.6 + 0.9 * 0.4 for a pattern,
\* in units of 1/3600
CombinedScore(words, intent) ==
    KeywordScore(words, intent) * 30
        + (IF PatternMatches(words, intent) THEN 1296 ELSE 0)

Position(intent) == CHOOSE n \in DOMAIN IntentOrder : IntentOrder[n] = intent

\* the intents that have an entry in combined_scores
Scored(words) ==
    {IntentOrder[n] : n \in {m \in DOMAIN IntentOrder :
        \/ KeywordScore(words, IntentOrder[m]) > 0
        \/ PatternMatches(words, IntentOrder[m])}}

\* a was entered into combined_scores before b: keyword results first, by
\* descending score and then dictionary order, pattern results after them
EnteredBefore(words, a, b) ==
    LET ka == KeywordScore(words, a)
        kb == KeywordScore(words, b)
    IN  \/ ka > kb
        \/ ka = kb /\ Position(a) < Position(b)

\* max(combined_scores.items(), key=score): the first entry of the greatest
\* normalized score min(score / max_score, 1.0)
BestIntent(words) ==
    LET top == CHOOSE a \in Scored(words) :
                  \A b \in Scored(words) : CombinedScore(words, b) <= CombinedScore(words, a)
        max_score == CombinedScore(words, top)
        tops == {a \in Scored(words) : CombinedScore(words, a) = max_score}
        best == CHOOSE a \in tops : \A b \in tops \ {a} : EnteredBefore(words, a, b)
    IN  <<best, (CombinedScore(words, best) * 100) \div max_score>>

\* the words of the default to search
SearchTriggers == {"mikhaham", "kharid"}

\* as classify, with the default to search taken whatever the text holds
classify_defaulting_to_search(text) ==
    IF ~text.is_str \/ text.words = <<>> \/ TextLen(text.words) < 2
    THEN <<"unknown", 0>>
    ELSE IF Scored(text.words) # {} THEN BestIntent(text.words)
    ELSE <<"search", 70>>

\* classify: (intent, confidence in percent)
classify(text) ==
    IF ~text.is_str \/ text.words = <<>> \/ TextLen(text.words) < 2
    THEN <<"unknown", 0>>
    ELSE IF Scored(text.words) # {} THEN BestIntent(text.words)
    ELSE IF \E w \in SearchTriggers : Contains(text.words, w) THEN <<"search", 70>>
    ELSE <<"unknown", 30>>

requires_clarification(intent, confidence) ==
    confidence < 50 \/ intent = "unknown"

\* get_clarification_questions: the questions, by what they ask for (no text
\* of the model holds one of the words that withhold a question)
get_clarification_questions(intent) ==
    CASE intent = "search" -> <<"budget", "location">>
      [] intent = "compare" -> <<"items">>
      [] intent = "advice" -> <<"topic">>
      [] intent = "unknown" -> <<"rephrase">>
      [] OTHER -> <<>>

\* ------------------------------------------------------------------------
\* EntityExtractor
\* ------------------------------------------------------------------------
\* the places where a numeral is followed by a word of the set next
NumeralBefore(words, next) ==
    {n \in DOMAIN words :
        words[n] \in Numerals /\ n + 1 <= Len(words) /\ words[n + 1] \in next}

\* the places of set, as a list from left to right
RECURSIVE LeftToRight(_)
LeftToRight(set) ==
    IF set = {} THEN <<>>
    ELSE LET n == CHOOSE m \in set : \A k \in set : m <= k
         IN  <<n>> \o LeftToRight(set \ {n})

\* _normalize_money(value_str, unit), unit being the whole text matched:
\* / 1000 when it holds the thousand unit, * 1000 when it holds the billion
\* unit, else the number
normalize_money(value, matched) ==
    IF "hezar" \in matched THEN value
    ELSE IF "milyard" \in matched THEN value * 1000000
    ELSE value * 1000

\* the matches of money_patterns[pattern] from left to right, each with the
\* words its text holds.  Pattern 1: numeral, unit group, where the unit group
\* takes the million unit whole and of any other word in mim its first letter.
\* Pattern 2: numeral, thousand unit.  Pattern 3: numeral, billion unit.
\* Pattern 4 wants the currency word, which no text of the model has.
MoneyMatches(words, pattern) ==
    LET next == CASE pattern = 1 -> BeginsWithMim
                  [] pattern = 2 -> {"hezar"}
                  [] pattern = 3 -> {"milyard"}
                  [] OTHER -> {}
        places == LeftToRight(NumeralBefore(words, next))
    IN  [k \in DOMAIN places |->
            LET n == places[k]
                matched == IF pattern = 1 /\ words[n + 1] # "milyoon"
                           THEN {words[n], "m"}
                           ELSE {words[n], words[n + 1]}
            IN  [entity_type |-> "money", start_pos |-> n, pattern |-> pattern,
                 value |-> normalize_money(NumeralValue(words[n]), matched)]]

\* extract_money_entities: pattern by pattern, match by match
extract_money_entities(words) ==
    MoneyMatches(words, 1) \o MoneyMatches(words, 2)
        \o MoneyMatches(words, 3) \o MoneyMatches(words, 4)

\* the first match of loan_patterns[pattern]: 'loan' numeral unit-group, or
\* numeral million 'loan' (after the numeral the word must be the million unit,
\* for 'loan' has to follow what the unit group took)
LoanMatches(words, pattern) ==
    CASE pattern = 1 ->
            {n \in NumeralBefore(words, BeginsWithMim) : n > 1 /\ words[n - 1] = "vam"}
      [] pattern = 2 ->
            {n \in NumeralBefore(words, {"milyoon"}) :
                n + 2 <= Len(words) /\ words[n + 2] = "vam"}
      [] OTHER -> {}

\* the first match of monthly_patterns[pattern]: only the third, 'installment'
\* numeral unit-group, matches texts of the model
MonthlyMatches(words, pattern) ==
    CASE pattern = 3 ->
            {n \in NumeralBefore(words, BeginsWithMim) : n > 1 /\ words[n - 1] = "ghest"}
      [] OTHER -> {}

\* the matches of the pattern of a list of patterns: loan_patterns or
\* monthly_patterns
PatternPlaces(words, patterns, pattern) ==
    IF patterns = "loan_patterns" THEN LoanMatches(words, pattern)
    ELSE MonthlyMatches(words, pattern)

\* the loop 'for pattern in patterns: for match in matches: x = ...; break':
\* every pattern that matches overwrites x with its first match
RECURSIVE LastPatternWins(_, _, _, _)
LastPatternWins(words, patterns, pattern, found) ==
    IF pattern > 3 THEN found
    ELSE LET places == PatternPlaces(words, patterns, pattern)
         IN  LastPatternWins(words, patterns, pattern + 1,
                IF places = {} THEN found
                ELSE normalize_money(NumeralValue(words[LeftToRight(places)[1]]), {}))

\* extract_loan_info: (loan_amount, loan_months); no text of the model states
\* a time
extract_loan_info(words) == <<LastPatternWins(words, "loan_patterns", 1, 0), 0>>

extract_monthly_payment(words) == LastPatternWins(words, "monthly_patterns", 1, 0)

\* the orders list(set(...)) gives two strings in, one per process
SetOrders == {1, 2}

\* extract_location: the location keywords in the text (no location pattern
\* matches a text of the model), in the order of the set made of them
extract_location(words) ==
    LET keywords == <<"tehran", "ekbatan">>
        locations == {n \in DOMAIN keywords : Contains(words, keywords[n])}
    IN  IF locations = {1, 2}
        THEN IF set_order = 1 THEN keywords ELSE <<keywords[2], keywords[1]>>
        ELSE [k \in 1..Cardinality(locations) |->
                keywords[CHOOSE n \in locations : TRUE]]

\* extract_search_type: the rules rent, purchase, vehicle, lease in this
\* order, each reading what the earlier ones wrote
extract_search_type(words) ==
    LET start == [type |-> Nothing, search_type |-> "", is_rent |-> FALSE,
                  is_purchase |-> FALSE, is_lease |-> FALSE]
        rent ==
            IF Contains(words, "rahn")
            THEN [start EXCEPT !.is_rent = TRUE,
                               !.type = Some("residential_rent"),
                               !.search_type = "rahn o ejare"]
            ELSE start
        purchase ==
            IF Contains(words, "kharid")
            THEN [rent EXCEPT !.is_purchase = TRUE,
                              !.type = IF rent.type = Nothing
                                       THEN Some("residential_purchase") ELSE @]
            ELSE rent
        vehicle ==
            IF Contains(words, "mashin") \/ Contains(words, "otomobil")
            THEN IF purchase.is_purchase
                 THEN [purchase EXCEPT !.type = Some("vehicle_purchase")]
                 ELSE IF purchase.is_lease
                      THEN [purchase EXCEPT !.type = Some("vehicle_lease")]
                      ELSE purchase
            ELSE purchase
        lease ==
            IF Contains(words, "ghest")
            THEN [vehicle EXCEPT !.is_lease = TRUE,
                                 !.type = IF Contains(words, "mashin")
                                          THEN Some("vehicle_lease") ELSE @]
            ELSE vehicle
    IN  lease

\* extract_all_entities; primary_liquidity is Nothing when the key is not set
extract_all_entities(words) ==
    LET money_entities == extract_money_entities(words)
    IN  [money_entities |-> money_entities,
         locations |-> extract_location(words),
         loan_info |-> extract_loan_info(words),
         monthly_payment |-> extract_monthly_payment(words),
         search_type |-> extract_search_type(words),
         primary_liquidity |-> IF money_entities # <<>>
                               THEN Some(money_entities[1].value) ELSE Nothing]

\* UserProfile(...)
UserProfile(liquidity, loan_amount, loan_availability_months, max_monthly_payment) ==
    [liquidity |-> liquidity, loan_amount |-> loan_amount,
     loan_availability_months |-> loan_availability_months,
     max_monthly_payment |-> max_monthly_payment]

total_budget(profile) == profile.liquidity + profile.loan_amount

build_user_profile(entities) ==
    UserProfile(IF entities.primary_liquidity = Nothing THEN 0
                ELSE entities.primary_liquidity[1],
                entities.loan_info[1], entities.loan_info[2],
                entities.monthly_payment)

\* ------------------------------------------------------------------------
\* SearchGoal and build_search_goals
\* ------------------------------------------------------------------------
SearchGoalTypes ==
    {"residential_rent", "residential_purchase", "vehicle_purchase",
     "vehicle_lease", "electronics", "general"}

\* bool(x) of an Optional[float]
TruthyPrice(opt) == opt # Nothing /\ opt[1] # 0

\* SearchGoal.validate_price_range, run on a max_price that is not None:
\* whether it raises
validate_price_range(min_price, max_price) ==
    /\ max_price # Nothing
    /\ TruthyPrice(max_price) /\ TruthyPrice(min_price)
    /\ max_price[1] < min_price[1]

\* SearchGoal(...), the construction having passed validation
SearchGoal(goal_id, type, target_location, budget_source, priority, search_type, min_price, max_price, max_monthly_lease_payment) ==
    [goal_id |-> goal_id, type |-> type, target_location |-> target_location,
     budget_source |-> budget_source, priority |-> priority,
     search_type |-> search_type, min_price |-> min_price, max_price |-> max_price,
     max_monthly_lease_payment |-> max_monthly_lease_payment,
     additional_filters |-> {}]

\* build_search_goals: the budget source
budget_source(profile) ==
    IF profile.loan_amount > 0 /\ profile.liquidity > 0 THEN "liquidity + loan"
    ELSE IF profile.loan_amount > 0 THEN "loan"
    ELSE IF profile.max_monthly_payment > 0 THEN "monthly_payment"
    ELSE "liquidity"

\* as build_search_goals, with every goal of priority high
build_search_goals_all_high(entities, profile) ==
    LET search_info == entities.search_type
        type == IF search_info.type = Nothing THEN "general" ELSE search_info.type[1]
        max_price == IF total_budget(profile) > 0
                     THEN Some(total_budget(profile)) ELSE Nothing
        lease == IF profile.max_monthly_payment > 0
                 THEN Some(profile.max_monthly_payment) ELSE Nothing
        Goal(goal_id, location) ==
            SearchGoal(goal_id, type, location, budget_source(profile), "high",
                       search_info.search_type, Nothing, max_price, lease)
    IN  IF entities.locations # <<>>
        THEN [n \in DOMAIN entities.locations |-> Goal(n, entities.locations[n])]
        ELSE <<Goal(1, "")>>

\* build_search_goals: one goal per location, or one goal without a location
build_search_goals(entities, profile) ==
    LET search_info == entities.search_type
        type == IF search_info.type = Nothing THEN "general" ELSE search_info.type[1]
        max_price == IF total_budget(profile) > 0
                     THEN Some(total_budget(profile)) ELSE Nothing
        lease == IF profile.max_monthly_payment > 0
                 THEN Some(profile.max_monthly_payment) ELSE Nothing
        Goal(goal_id, location) ==
            SearchGoal(goal_id, type, location, budget_source(profile),
                       IF goal_id = 1 THEN "high" ELSE "medium",
                       search_info.search_type, Nothing, max_price, lease)
    IN  IF entities.locations # <<>>
        THEN [n \in DOMAIN entities.locations |-> Goal(n, entities.locations[n])]
        ELSE <<Goal(1, "")>>

\* ------------------------------------------------------------------------
\* NLUProcessor
\* ------------------------------------------------------------------------
\* _calculate_confidence, in units of 1/10000:
\* intent_confidence * 0.4 + entity_confidence * 0.6, * 0.7 for a profile
\* without budget and monthly payment, at most 1
calculate_confidence(intent_confidence, entities, profile) ==
    LET entity_confidence ==
              (IF entities.money_entities # <<>> THEN 3 ELSE 0)
            + (IF entities.locations # <<>> THEN 2 ELSE 0)
            + (IF entities.search_type.type # Nothing THEN 1 ELSE 0)
        confidence == intent_confidence * 40 + entity_confidence * 600
        penalized == IF total_budget(profile) = 0 /\ profile.max_monthly_payment = 0
                     THEN (confidence * 7) \div 10 ELSE confidence
    IN  IF penalized < 10000 THEN penalized ELSE 10000

\* NLUProcessor.process on a text that is a string
process(text) ==
    LET classified == classify(text)
        intent == classified[1]
        intent_confidence == classified[2]
        entities == extract_all_entities(text.words)
        user_profile == build_user_profile(entities)
        goals == build_search_goals(entities, user_profile)
        clarify == requires_clarification(intent, intent_confidence)
    IN  [intent |-> intent,
         confidence |-> calculate_confidence(intent_confidence, entities, user_profile),
         entities |-> entities,
         user_profile |-> user_profile,
         search_goals |-> goals,
         requires_clarification |-> clarify,
         clarification_questions |->
            IF clarify THEN get_clarification_questions(intent) ELSE <<>>,
         is_multi_goal |-> Len(goals) > 1]

\* StructuredQuery.validate_goals: whether it raises
validate_goals(goals) == goals = <<>>

\* build_structured_query
build_structured_query(nlu_result) ==
    [user_profile |-> nlu_result.user_profile,
     search_goals |-> nlu_result.search_goals,
     is_multi_goal |-> nlu_result.is_multi_goal,
     confidence |-> nlu_result.confidence]

\* ------------------------------------------------------------------------
\* QueryGenerator
\* ------------------------------------------------------------------------
\* site_mappings, in the order of the dictionary
SiteOrder == <<"divar", "sheypoor", "bama", "torob", "digikala">>

\* site_mappings[site]['supports']
Supports(site) ==
    CASE site \in {"divar", "sheypoor"} ->
            {"residential_rent", "residential_purchase", "vehicle_purchase"}
      [] site = "bama" -> {"vehicle_purchase", "vehicle_lease"}
      [] OTHER -> {"electronics", "general"}

\* int(x) of an amount: whole millions
IntMillions(amount) == amount \div 1000

\* a dictionary from the entries that were set: the keys of optional whose
\* value is not Nothing
DictOf(optional) ==
    [k \in {f \in DOMAIN optional : optional[f] # Nothing} |-> optional[k][1]]

\* _build_real_estate_filters: price_min, the min_price or else 80% of max_price
price_min_of(goal) ==
    IF TruthyPrice(goal.min_price) THEN Some(IntMillions(goal.min_price[1]))
    ELSE IF TruthyPrice(goal.max_price)
         THEN Some(IntMillions((goal.max_price[1] * 8) \div 10))
         ELSE Nothing

build_real_estate_filters(goal) ==
    DictOf([location |-> IF goal.target_location # ""
                         THEN Some(goal.target_location) ELSE Nothing,
            price_max |-> IF TruthyPrice(goal.max_price)
                          THEN Some(IntMillions(goal.max_price[1])) ELSE Nothing,
            price_min |-> price_min_of(goal),
            category |-> CASE goal.type = "residential_rent" -> Some("apartment-rent")
                           [] goal.type = "residential_purchase" -> Some("apartment-sell")
                           [] OTHER -> Nothing,
            rent_type |-> IF goal.type = "residential_rent"
                          THEN IF goal.search_type = "full deposit"
                               THEN Some("full_deposit") ELSE Some("deposit_rent")
                          ELSE Nothing])

\* DivarCrawler.build_search_url, SheypoorCrawler.build_search_url: the
\* category of the URL, filters.get('category', 'apartment-rent')
url_category(filters) ==
    IF "category" \in DOMAIN filters THEN filters.category ELSE "apartment-rent"

build_vehicle_filters(goal) ==
    DictOf([price_max |-> IF TruthyPrice(goal.max_price)
                          THEN Some(IntMillions(goal.max_price[1])) ELSE Nothing,
            price_min |-> IF TruthyPrice(goal.min_price)
                          THEN Some(IntMillions(goal.min_price[1])) ELSE Nothing,
            lease_monthly_max |->
                IF TruthyPrice(goal.max_monthly_lease_payment)
                THEN Some(IntMillions(goal.max_monthly_lease_payment[1])) ELSE Nothing,
            search_type |-> IF goal.type = "vehicle_lease"
                            THEN Some("lease") ELSE Some("purchase")])

\* _build_product_filters; additional_filters has no 'product_name'
build_product_filters(goal) ==
    DictOf([price_max |-> IF TruthyPrice(goal.max_price)
                          THEN Some(IntMillions(goal.max_price[1])) ELSE Nothing,
            price_min |-> IF TruthyPrice(goal.min_price)
                          THEN Some(IntMillions(goal.min_price[1])) ELSE Nothing])

map_search_type(site, goal) ==
    CASE site \in {"divar", "sheypoor"} /\ goal.type = "residential_rent" -> "rent"
      [] site \in {"divar", "sheypoor"} /\ goal.type = "residential_purchase" -> "purchase"
      [] site = "bama" /\ goal.type = "vehicle_lease" -> "lease"
      [] site = "bama" /\ goal.type # "vehicle_lease" -> "purchase"
      [] OTHER -> "general"

\* as priority_of, with low ranked like medium
priority_two_levels(goal) == IF goal.priority = "high" THEN 3 ELSE 2

\* _build_site_query, 'Determine priority'
priority_of(goal) ==
    IF goal.priority = "high" THEN 3 ELSE IF goal.priority = "medium" THEN 2 ELSE 1

site_filters(site, goal) ==
    CASE site \in {"divar", "sheypoor"} -> build_real_estate_filters(goal)
      [] site = "bama" -> build_vehicle_filters(goal)
      [] OTHER -> build_product_filters(goal)

\* as build_site_query, without the test 'if not filters'
build_site_query_always(site, goal) ==
    <<[site_name |-> site, goal_id |-> goal.goal_id,
       search_type |-> map_search_type(site, goal),
       filters |-> site_filters(site, goal), priority |-> priority_of(goal),
       metadata |-> [goal_type |-> goal.type,
                     target_location |-> goal.target_location,
                     budget_source |-> goal.budget_source]]>>

\* _build_site_query: the query in a list, the empty list for None
build_site_query(site, goal) ==
    IF DOMAIN site_filters(site, goal) = {} THEN <<>>
    ELSE <<[site_name |-> site, goal_id |-> goal.goal_id,
            search_type |-> map_search_type(site, goal),
            filters |-> site_filters(site, goal), priority |-> priority_of(goal),
            metadata |-> [goal_type |-> goal.type,
                          target_location |-> goal.target_location,
                          budget_source |-> goal.budget_source]]>>

\* _generate_queries_for_goal: the sites that support the goal, in the order of
\* site_mappings, each asked for its query
RECURSIVE generate_queries_for_goal(_, _)
generate_queries_for_goal(goal, n) ==
    IF n > Len(SiteOrder) THEN <<>>
    ELSE (IF goal.type \in Supports(SiteOrder[n])
          THEN build_site_query(SiteOrder[n], goal) ELSE <<>>)
         \o generate_queries_for_goal(goal, n + 1)

RECURSIVE all_queries(_)
all_queries(goals) ==
    IF goals = <<>> THEN <<>>
    ELSE generate_queries_for_goal(Head(goals), 1) \o all_queries(Tail(goals))

\* all_queries.sort(key=lambda x: x.priority, reverse=True): descending and
\* stable; x goes behind every query whose priority is not less
RECURSIVE InsertByPriority(_, _)
InsertByPriority(sorted, x) ==
    IF sorted = <<>> THEN <<x>>
    ELSE IF Head(sorted).priority < x.priority
         THEN <<x>> \o sorted
         ELSE <<Head(sorted)>> \o InsertByPriority(Tail(sorted), x)

RECURSIVE SortByPriority(_, _)
SortByPriority(list, sorted) ==
    IF list = <<>> THEN sorted
    ELSE SortByPriority(Tail(list), InsertByPriority(sorted, Head(list)))

\* generate_queries
generate_queries(goals) == SortByPriority(all_queries(goals), <<>>)

\* ------------------------------------------------------------------------
\* ChatbotEngine
\* ------------------------------------------------------------------------
ChatbotResponse(success, query, msg, confidence, clarify, questions, errors) ==
    [success |-> success, query |-> query, message |-> msg,
     confidence |-> confidence, requires_clarification |-> clarify,
     clarification_questions |-> questions, errors |-> errors]

NoResponse == ChatbotResponse(FALSE, Nothing, "", 0, FALSE, <<>>, <<>>)

\* process_message, the except branch
FailedResponse(error) ==
    ChatbotResponse(FALSE, Nothing, "sorry", 0, FALSE, <<>>, <<error>>)

\* as ClarificationResponse, with the query built from the goals at hand
ClarificationResponseWithQuery(nlu_result) ==
    ChatbotResponse(TRUE, Some(build_structured_query(nlu_result)), "questions",
                    nlu_result.confidence, TRUE,
                    nlu_result.clarification_questions, <<>>)

\* process_message, 'Check if clarification is needed'
ClarificationResponse(nlu_result) ==
    ChatbotResponse(TRUE, Nothing, "questions", nlu_result.confidence, TRUE,
                    nlu_result.clarification_questions, <<>>)

\* process_message, the response that carries the StructuredQuery
QueryResponse(nlu_result) ==
    ChatbotResponse(TRUE, Some(build_structured_query(nlu_result)), "searching",
                    nlu_result.confidence, FALSE, <<>>, <<>>)

\* process_message(message), without a session.  re.finditer raises a
\* TypeError on a message that is not a string; a StructuredQuery without
\* goals raises a validation error.
process_message(text) ==
    IF ~text.is_str THEN FailedResponse("TypeError")
    ELSE LET nlu_result == process(text)
         IN  IF nlu_result.requires_clarification
             THEN ClarificationResponse(nlu_result)
             ELSE IF validate_goals(nlu_result.search_goals)
                  THEN FailedResponse("ValidationError")
                  ELSE QueryResponse(nlu_result)

\* what process_message did on the way: whether it built a StructuredQuery
\* and whether it called generate_queries
BuildsQuery(text) == text.is_str /\ ~process(text).requires_clarification

\* ------------------------------------------------------------------------
\* SEDEIntegration
\* ------------------------------------------------------------------------
\* as FailureEnvelope, with the errors left out
FailureEnvelopeBare(msg, errors) == [success |-> FALSE, message |-> msg]

FailureEnvelope(msg, errors) == [success |-> FALSE, message |-> msg, errors |-> errors]

NoEnvelope == [returned |-> FALSE]

\* what crawl_from_query_json does in the model: it raises, or it returns the
\* normalized result of a batch
CrawlOutcomes ==
    {[raised |-> TRUE, results |-> NotNormalized],
     [raised |-> FALSE,
      results |-> normalize_batch(<<[success |-> TRUE, items |-> <<DivarItem("u1")>>]>>)]}

\* generate_query_json
generate_query_json(list) ==
    [queries |-> list, total_queries |-> Len(list),
     sites |-> {list[n].site_name : n \in DOMAIN list}]

\* _generate_summary
generate_summary(chatbot_response, crawl_results) ==
    [user_budget |-> total_budget(chatbot_response.query[1].user_profile),
     total_items_found |-> crawl_results.total_items,
     sources_crawled |-> crawl_results.sources,
     confidence |-> chatbot_response.confidence]

\* whether process_user_request goes on to generate queries and crawl
ReachesCrawl(chatbot_response) ==
    /\ chatbot_response.success
    /\ ~chatbot_response.requires_clarification
    /\ chatbot_response.query # Nothing

\* process_user_request from the ChatbotResponse on
process_user_request(chatbot_response, crawl) ==
    IF ~chatbot_response.success
    THEN FailureEnvelope(chatbot_response.message, chatbot_response.errors)
    ELSE IF chatbot_response.requires_clarification
    THEN [success |-> TRUE, requires_clarification |-> TRUE,
          message |-> chatbot_response.message,
          clarification_questions |-> chatbot_response.clarification_questions,
          confidence |-> chatbot_response.confidence]
    ELSE IF chatbot_response.query = Nothing
    THEN [success |-> FALSE, message |-> "not understood"]
    ELSE IF crawl.raised
    THEN FailureEnvelope("error", <<"Exception">>)
    ELSE [success |-> TRUE,
          chatbot_response |-> chatbot_response,
          structured_query |-> chatbot_response.query[1],
          search_queries |->
              generate_query_json(generate_queries(chatbot_response.query[1].search_goals)),
          crawl_results |-> crawl.results,
          summary |-> generate_summary(chatbot_response, crawl.results)]

\* the user writes one more word
Type(w) ==
    /\ turn = "typing"
    /\ message.is_str
    /\ Len(message.words) < MaxWords
    /\ message' = [message EXCEPT !.words = Append(@, w)]
    /\ UNCHANGED <<turn, response, calls, envelope, set_order, conversation_history, request,
                   generator_vars,
                   crawl_vars, normalizer_vars>>

\* the caller passes None for the message
PassNone ==
    /\ turn = "typing"
    /\ message = [is_str |-> TRUE, words |-> <<>>]
    /\ message' = [is_str |-> FALSE, words |-> <<>>]
    /\ UNCHANGED <<turn, response, calls, envelope, set_order, conversation_history, request,
                   generator_vars,
                   crawl_vars, normalizer_vars>>

\* process_user_request, 'Step 1': chatbot.process_message returns
ProcessMessage ==
    /\ turn = "typing"
    /\ turn' = "replied"
    /\ response' = process_message(message)
    /\ calls' = IF BuildsQuery(message)
                THEN [calls EXCEPT !.structured_query = @ + 1,
                                   !.generate_queries = @ + 1]
                ELSE calls
    /\ UNCHANGED <<message, envelope, set_order, conversation_history, request,
                   generator_vars, crawl_vars,
                   normalizer_vars>>

\* process_user_request, from the ChatbotResponse to the return
ProcessUserRequest(crawl) ==
    /\ turn = "replied"
    /\ turn' = "returned"
    /\ envelope' = process_user_request(response, crawl)
    /\ calls' = IF ReachesCrawl(response)
                THEN [calls EXCEPT !.generate_queries = @ + 1, !.crawl = @ + 1]
                ELSE calls
    /\ UNCHANGED <<message, response, set_order, conversation_history, request,
                   generator_vars, crawl_vars,
                   normalizer_vars>>

\* ------------------------------------------------------------------------
\* ChatbotEngine with sessions: process_message(message, session_id, context)
\* and clear_session(session_id).  A context is a dictionary over ContextKeys,
\* kept as a record whose field is Nothing where the dictionary has no such
\* key.  An entry of a history is kept without its timestamp.
\* ------------------------------------------------------------------------
SessionIds == {"s1", "s2"}

ContextKeys == {"user_profile", "search_goals"}

EmptyContext == [k \in ContextKeys |-> Nothing]

\* the messages of the calls with a session: None, one that is answered with
\* questions and one that is answered with a StructuredQuery
SessionMessages ==
    {[is_str |-> FALSE, words |-> <<>>],
     [is_str |-> TRUE, words |-> <<"ekbatan">>],
     [is_str |-> TRUE, words |-> <<"kharid", "ekbatan">>]}

\* dict.update
update(context, other) ==
    [k \in ContextKeys |-> IF other[k] # Nothing THEN other[k] ELSE context[k]]

\* conversation_history[session], the empty list where there is no such key
History(history, session) ==
    IF history[session] = Nothing THEN <<>> ELSE history[session][1]

\* process_message, 'Get conversation context if session exists':
\* _get_conversation_context returns the 'context' dictionary of the last
\* entry itself, not a copy, and conversation_context.update(context) writes
\* the caller's keys into it, under 'if context:'
merge_conversation_context(history, session_id, context) ==
    IF /\ Truthy(session_id)
       /\ context # Nothing /\ context[1] # EmptyContext
       /\ History(history, session_id[1]) # <<>>
    THEN LET entries == History(history, session_id[1])
         IN  [history EXCEPT ![session_id[1]] =
                 Some([entries EXCEPT ![Len(entries)].context = update(@, context[1])])]
    ELSE history

\* _update_conversation_history
update_conversation_history(history, session, text, structured_query) ==
    [history EXCEPT ![session] =
        Some(Append(History(history, session),
                    [message |-> text.words,
                     query |-> structured_query,
                     context |-> [user_profile |-> Some(structured_query.user_profile),
                                  search_goals |-> Some(structured_query.search_goals)]]))]

\* process_message(message, session_id, context), the whole call
ProcessMessageInSession(text, session_id, context) ==
    /\ Truthy(session_id) =>
          Len(History(conversation_history, session_id[1])) < MaxHistory
    /\ message' = text
    /\ response' = process_message(text)
    /\ LET merged == merge_conversation_context(conversation_history, session_id, context)
       IN  conversation_history' =
              IF Truthy(session_id) /\ response'.query # Nothing
              THEN update_conversation_history(merged, session_id[1], text,
                                               response'.query[1])
              ELSE merged
    /\ request' = [op |-> "process_message", session_id |-> session_id,
                   context |-> context]
    /\ UNCHANGED <<turn, calls, envelope, set_order, generator_vars, crawl_vars,
                   normalizer_vars>>

\* clear_session(session_id)
ClearSession(session) ==
    /\ conversation_history' = [conversation_history EXCEPT ![session] = Nothing]
    /\ request' = [op |-> "clear_session", session_id |-> Some(session),
                   context |-> Nothing]
    /\ UNCHANGED <<message, turn, response, calls, envelope, set_order,
                   generator_vars, crawl_vars, normalizer_vars>>

\* ------------------------------------------------------------------------
\* generate_queries on the StructuredQueries within the bounds
\* ------------------------------------------------------------------------
\* min_price and max_price of the goals a caller asks for, the last two with
\* max_price below min_price
PriceRanges ==
    {<<Nothing, Nothing>>, <<Nothing, Some(500000)>>, <<Some(0), Some(500000)>>,
     <<Some(100000), Some(500000)>>, <<Some(500000), Some(100000)>>,
     <<Some(500000), Some(0)>>}

GoalTypes ==
    {"residential_rent", "residential_purchase", "vehicle_purchase",
     "vehicle_lease", "general"}

Priorities == {"high", "medium", "low"}

\* SearchGoal(...) is called and passes validation: the goal joins the
\* goals of the query.  Or it raises and nothing is constructed.  The goals of
\* one query are given one price range, as build_search_goals gives every
\* goal the budget of the one profile.
NewSearchGoal(type, priority, location, range) ==
    /\ search_queries = Nothing
    /\ Len(search_goals) < MaxGoals
    /\ search_goals # <<>> =>
          range = <<search_goals[1].min_price, search_goals[1].max_price>>
    /\ IF validate_price_range(range[1], range[2])
       THEN /\ rejected' = TRUE
            /\ UNCHANGED search_goals
       ELSE /\ rejected' = FALSE
            /\ search_goals' = Append(search_goals,
                  SearchGoal(Len(search_goals) + 1, type, location, "liquidity",
                             priority, "", range[1], range[2], Nothing))
    /\ UNCHANGED <<search_queries, chatbot_vars, crawl_vars, normalizer_vars>>

\* generate_queries on a StructuredQuery with these goals
GenerateQueries ==
    /\ search_queries = Nothing
    /\ ~validate_goals(search_goals)
    /\ search_queries' = Some(generate_queries(search_goals))
    /\ UNCHANGED <<search_goals, rejected, chatbot_vars, crawl_vars, normalizer_vars>>

\* ------------------------------------------------------------------------
\* The crawl orchestrator
\* ------------------------------------------------------------------------
NewManager ==
    /\ phase = "idle"
    /\ queries = <<>>
    /\ parallel = FALSE
    /\ tasks = <<>>
    /\ results = <<>>
    /\ batch_result = NoBatch
    /\ driver = [s \in SeleniumSites |-> None]
    /\ browsers = <<>>

\* ChatbotEngine(), nothing said to it yet
NewChatbot ==
    /\ message = [is_str |-> TRUE, words |-> <<>>]
    /\ turn = "typing"
    /\ response = NoResponse
    /\ calls = [structured_query |-> 0, generate_queries |-> 0, crawl |-> 0]
    /\ envelope = NoEnvelope
    /\ conversation_history = [s \in SessionIds |-> Nothing]
    /\ request = [op |-> "", session_id |-> Nothing, context |-> Nothing]

\* QueryGenerator(), no StructuredQuery yet
NewQueryGenerator ==
    /\ search_goals = <<>>
    /\ rejected = FALSE
    /\ search_queries = Nothing

Init ==
    /\ NewManager
    /\ max_workers \in PoolSizes
    /\ batch_in = <<>>
    /\ normalized = NotNormalized
    /\ NewChatbot
    /\ set_order = 1
    /\ NewQueryGenerator

Next ==
    \/ \E qs \in QueryLists : \E par \in BOOLEAN : CrawlBatch(qs, par)
    \/ \E i \in Requests : CrawlSite(i)
    \/ \E i \in Requests : GetDriver(i)
    \/ \E i \in Requests : CreateDriver(i)
    \/ \E i \in Requests : SeleniumGet(i)
    \/ \E i \in Requests : PageSource(i)
    \/ \E i \in Requests : RequestsGet(i)
    \/ \E i \in Requests : Extract(i)
    \/ ReturnBatch
    \/ DropResult
    \/ Cleanup

Spec ==
    Init /\ [][Next /\ UNCHANGED <<normalizer_vars, chatbot_vars, generator_vars>>]_vars

\* ------------------------------------------------------------------------
\* The normalizer, applied to every CrawlBatchResult within the bounds
\* ------------------------------------------------------------------------
InitNormalizer ==
    /\ NewManager
    /\ max_workers = 1
    /\ batch_in = <<>>
    /\ normalized = NotNormalized
    /\ NewChatbot
    /\ set_order = 1
    /\ NewQueryGenerator

NextNormalizer ==
    \/ \E ok \in BOOLEAN : AppendResult(ok)
    \/ \E item \in CrawledItems : AppendItem(item)
    \/ NormalizeBatch

SpecNormalizer ==
    InitNormalizer /\ [][NextNormalizer /\ UNCHANGED <<chatbot_vars, generator_vars>>]_vars

\* ------------------------------------------------------------------------
\* The pipeline, on every message within the bounds
\* ------------------------------------------------------------------------
NextChatbot ==
    \/ \E w \in Vocabulary : Type(w)
    \/ PassNone
    \/ ProcessMessage
    \/ \E crawl \in CrawlOutcomes : ProcessUserRequest(crawl)

SpecChatbot == InitNormalizer /\ [][NextChatbot]_vars

\* ------------------------------------------------------------------------
\* The entity extractor, on every text of the search vocabulary within the
\* bounds, in a process of either order of sets
\* ------------------------------------------------------------------------
InitExtractor ==
    /\ NewManager
    /\ max_workers = 1
    /\ batch_in = <<>>
    /\ normalized = NotNormalized
    /\ NewChatbot
    /\ set_order \in SetOrders
    /\ NewQueryGenerator

NextExtractor ==
    \/ \E w \in SearchVocabulary : Type(w)
    \/ ProcessMessage

SpecExtractor == InitExtractor /\ [][NextExtractor]_vars

\* ------------------------------------------------------------------------
\* The engine with sessions, on every sequence of process_message and
\* clear_session calls within the bounds
\* ------------------------------------------------------------------------
NextSession ==
    \/ \E text \in SessionMessages,
          \* session_id: None, the empty string or the id of a session
          session_id \in {Nothing, Some("")} \cup {Some(s) : s \in SessionIds},
          \* context: None, {} or a dictionary that has a user_profile
          context \in {Nothing, Some(EmptyContext),
                       Some([EmptyContext EXCEPT
                                !.user_profile = Some(UserProfile(2000, 0, 0, 0))])} :
            ProcessMessageInSession(text, session_id, context)
    \/ \E session \in SessionIds : ClearSession(session)

SpecSession == InitNormalizer /\ [][NextSession]_vars

\* ------------------------------------------------------------------------
\* The query generator, on every StructuredQuery within the bounds
\* ------------------------------------------------------------------------
NextGenerator ==
    \/ \E type \in GoalTypes, priority \in Priorities, location \in {"", "ekbatan"},
          range \in PriceRanges : NewSearchGoal(type, priority, location, range)
    \/ GenerateQueries

SpecGenerator == InitNormalizer /\ [][NextGenerator]_vars

\* ========================================================================
\* Properties
\* ========================================================================
Done(i) == tasks[i].pc = "done"

OpenBrowsers(s) == {b \in DOMAIN browsers : browsers[b].site = s /\ browsers[b].open}

\* the results of the returned batch that answer request i
Answers(i) ==
    {n \in DOMAIN batch_result.results : batch_result.results[n].req = i}

\* C1: crawl_batch returns only after every submitted crawl has returned, and
\* its results hold exactly one CrawlResult per request (in request order when
\* sequential, in any order when parallel); the result of request i is the one
\* its own crawl returned, success=false whenever that crawl failed, whatever
\* the other crawls did.
C1_OneResultPerRequest ==
    /\ \A n \in DOMAIN results :
          /\ results[n].req \in Requests
          /\ Done(results[n].req)
          /\ results[n] = tasks[results[n].req].res
    /\ \A i \in Requests : Done(i) =>
          /\ Cardinality({n \in DOMAIN results : results[n].req = i}) = 1
          /\ tasks[i].res.site_name = queries[i]
          /\ tasks[i].res.success = (tasks[i].cause = "ok")
          /\ ~tasks[i].res.success => tasks[i].res.items = <<>>
    /\ batch_result.returned =>
          /\ \A i \in Requests : Done(i)
          /\ Len(batch_result.results) = Len(queries)
          /\ \A i \in Requests :
                /\ Cardinality(Answers(i)) = 1
                /\ \A n \in Answers(i) : batch_result.results[n] = tasks[i].res
          /\ ~parallel => \A n \in DOMAIN batch_result.results :
                              batch_result.results[n].req = n

\* a parallel batch of two requests has returned, collected in the reverse of
\* the request order, one crawl failed and the other delivered items
C1_Witness ==
    /\ batch_result.returned /\ parallel /\ Len(queries) = 2
    /\ batch_result.results[1].req = 2
    /\ ~batch_result.results[1].success
    /\ batch_result.results[2].success /\ batch_result.results[2].total_items > 0

\* the items of the returned batch, one pair per item
BatchItemSlots ==
    {p \in (DOMAIN batch_result.results) \X (1..MaxRaw) :
        p[2] <= Len(batch_result.results[p[1]].items)}

\* C2: the CrawlBatchResult has success true iff at least one of its results
\* has, and total_items is the number of items of all its results; a batch
\* of no requests has success false and no items.
C2_BatchSuccessAndTotal ==
    batch_result.returned =>
        /\ batch_result.success
             <=> (\E i \in Requests : tasks[i].res.success)
        /\ batch_result.total_items = Cardinality(BatchItemSlots)
        /\ queries = <<>> => (~batch_result.success /\ batch_result.total_items = 0)

\* a parallel batch returned with one failed result and one result with items
C2_Witness ==
    /\ batch_result.returned /\ parallel
    /\ \E m, n \in DOMAIN batch_result.results :
          /\ ~batch_result.results[m].success
          /\ batch_result.results[n].success
          /\ batch_result.results[n].total_items > 0
    /\ batch_result.success /\ batch_result.total_items > 0

\* C3 (as claimed): with either transport the fetch is attempted at most
\* retry_times times, and a crawl ends with a failed fetch only after
\* retry_times attempts have failed.
C3_FetchFailsOnlyAfterRetries ==
    \A i \in Requests :
        /\ tasks[i].att <= retry_times
        /\ (Done(i) /\ tasks[i].cause = "fetch") => tasks[i].att = retry_times

\* the ways a crawl ends that are a failure of the fetch step
FetchFailures == {"fetch", "empty", "driver"}

\* C4 (as claimed): the CrawlResult of a crawler has success=false only if
\* the fetch step failed; extract_items or normalize_item raising never makes
\* it false.
C4_FailureOnlyFromFetch ==
    \A i \in Requests :
        (Done(i) /\ queries[i] \in crawlers /\ ~tasks[i].res.success)
            => tasks[i].cause \in FetchFailures

\* C5: after a fetch that succeeded and an extract_items that returned k
\* records, the records for which normalize_item raised are left out and each
\* adds one message to errors, the others are the items, in extraction order
\* and tagged with the goal_id, total_items is the number of items, success
\* is true, and items and errors together number k.
C5_RecordsNormalizedOrSkipped ==
    \A i \in Requests : (Done(i) /\ tasks[i].cause = "ok") =>
        LET r == tasks[i].res
            k == tasks[i].raw_items
            bad == tasks[i].raised
        IN  /\ r.success
            /\ r.total_items = Len(r.items)
            /\ Len(r.items) + Len(r.errors) = k
            /\ Len(r.errors) = Cardinality(bad)
            /\ \A n \in DOMAIN r.errors : r.errors[n] = "Normalization error"
            /\ {r.items[n].raw : n \in DOMAIN r.items} = (1..k) \ bad
            /\ \A m, n \in DOMAIN r.items : m < n => r.items[m].raw < r.items[n].raw
            /\ \A n \in DOMAIN r.items : r.items[n].goal_id = i

\* two records were extracted, the first could not be normalized, the second
\* is the one item
C5_Witness ==
    \E i \in Requests :
        /\ Done(i) /\ tasks[i].cause = "ok"
        /\ tasks[i].raw_items = 2 /\ tasks[i].raised = {1}
        /\ Len(tasks[i].res.items) = 1 /\ tasks[i].res.items[1].raw = 2

\* C6 (as claimed): no crawler ever has more than one open browser instance
\* of its making.
C6_OneOpenBrowserPerCrawler ==
    \A s \in SeleniumSites : Cardinality(OpenBrowsers(s)) <= 1

\* C7 (as claimed): once cleanup has returned, every browser instance is
\* closed and no crawler holds one.
C7_CleanupClosesEveryBrowser ==
    phase = "cleaned" =>
        /\ \A b \in DOMAIN browsers : ~browsers[b].open
        /\ \A s \in SeleniumSites : driver[s] = None

\* ------------------------------------------------------------------------
\* normalize_batch
\* ------------------------------------------------------------------------
IsNormalized == normalized.metadata.normalization_applied

\* the places of the items of the results that succeeded
Collected ==
    {p \in (DOMAIN batch_in) \X (1..MaxItems) :
        batch_in[p[1]].success /\ p[2] <= Len(batch_in[p[1]].items)}

ItemAt(p) == batch_in[p[1]].items[p[2]]

Earlier(p, q) == p[1] < q[1] \/ (p[1] = q[1] /\ p[2] < q[2])

\* the places that are the first of their url, in batch order
FirstOfUrl ==
    {p \in Collected :
        \A q \in Collected : ItemAt(q).url = ItemAt(p).url => ~Earlier(q, p)}

Emitted(out) == {out.items[n] : n \in DOMAIN out.items}

\* C8: normalize_batch emits at most one item per url, and what it emits is,
\* for each url of the results that succeeded, the first item of that url in
\* batch order, normalized; nothing else, nothing of a failed result.
C8_FirstItemOfEachUrl ==
    IsNormalized =>
        /\ \A m, n \in DOMAIN normalized.items :
              m # n => normalized.items[m].url # normalized.items[n].url
        /\ Emitted(normalized) = {normalize_item(ItemAt(p)) : p \in FirstOfUrl}
        /\ Len(normalized.items) = Cardinality(FirstOfUrl)

\* a failed result with an item, then a result that succeeded with two items of
\* one url from different sites: the first of the two is the one emitted
C8_Witness ==
    /\ IsNormalized /\ Len(batch_in) = 2
    /\ ~batch_in[1].success /\ Len(batch_in[1].items) = 1
    /\ batch_in[2].success /\ Len(batch_in[2].items) = 2
    /\ batch_in[2].items[1].url = batch_in[2].items[2].url
    /\ batch_in[2].items[1].source_site # batch_in[2].items[2].source_site
    /\ batch_in[1].items[1].url # batch_in[2].items[1].url
    /\ Len(normalized.items) = 1
    /\ normalized.items[1].source_site = batch_in[2].items[1].source_site

CollectedUrls == {ItemAt(p).url : p \in Collected}

\* exactly two collected items share a url, they are of different sites, and
\* no other two collected items share one
OneCrossSiteDuplicate ==
    \E p, q \in Collected :
        /\ Earlier(p, q)
        /\ ItemAt(p).url = ItemAt(q).url
        /\ ItemAt(p).source_site # ItemAt(q).source_site
        /\ \A x, y \in Collected :
              (Earlier(x, y) /\ ItemAt(x).url = ItemAt(y).url) => (x = p /\ y = q)

\* C9: duplicates_removed is the number of items collected from the results
\* that succeeded less the number of distinct urls among them; it is 1 when
\* just two collected items, of different sites, share a url.
C9_DuplicatesRemoved ==
    IsNormalized =>
        /\ normalized.metadata.duplicates_removed
             = Cardinality(Collected) - Cardinality(CollectedUrls)
        /\ OneCrossSiteDuplicate => normalized.metadata.duplicates_removed = 1

\* three items collected from two results, two of them one listing on two sites
C9_Witness ==
    /\ IsNormalized /\ OneCrossSiteDuplicate
    /\ Cardinality(Collected) = 3 /\ Cardinality(CollectedUrls) = 2
    /\ \E p, q \in Collected : p[1] # q[1] /\ ItemAt(p).url = ItemAt(q).url
    /\ normalized.metadata.duplicates_removed = 1

\* every place of an item in the batch, of failed results too
Places ==
    {p \in (DOMAIN batch_in) \X (1..MaxItems) : p[2] <= Len(batch_in[p[1]].items)}

DistinctItemsDistinctUrls ==
    \A p, q \in Places : ItemAt(p) # ItemAt(q) => ItemAt(p).url # ItemAt(q).url

Orders(n) == {f \in [1..n -> 1..n] : \A a, b \in 1..n : a # b => f[a] # f[b]}

Reordered(rs, f) == [n \in DOMAIN rs |-> rs[f[n]]]

\* C10: when distinct items of the batch have distinct urls, normalize_batch
\* emits the same set of items for every order of the results of the batch.
C10_OrderOfResultsIsFree ==
    (IsNormalized /\ DistinctItemsDistinctUrls) =>
        \A f \in Orders(Len(batch_in)) :
            Emitted(normalize_batch(Reordered(batch_in, f))) = Emitted(normalized)

\* a failed result and a result that succeeded, with different listings, two
\* items emitted
C10_Witness ==
    /\ IsNormalized /\ DistinctItemsDistinctUrls
    /\ Len(batch_in) = 2
    /\ ~batch_in[1].success /\ batch_in[1].items # <<>>
    /\ batch_in[2].success /\ Len(batch_in[2].items) = 2
    /\ Len(normalized.items) = 2

\* C11: the items normalize_batch emits are in descending order of the pair
\* (confidence_score, completeness_score), the completeness being the one the
\* normalizer wrote: no item is followed by one with a strictly greater pair.
C11_SortedByConfidenceThenCompleteness ==
    IsNormalized =>
        \A m, n \in DOMAIN normalized.items : m < n =>
            LET a == normalized.items[m]
                b == normalized.items[n]
            IN  \/ a.confidence_score > b.confidence_score
                \/ /\ a.confidence_score = b.confidence_score
                   /\ a.completeness_score >= b.completeness_score

\* two items emitted, the one of the greater confidence first although its
\* completeness is the smaller and it was collected last
C11_Witness ==
    /\ IsNormalized /\ Len(normalized.items) = 2
    /\ normalized.items[1].confidence_score > normalized.items[2].confidence_score
    /\ normalized.items[1].completeness_score < normalized.items[2].completeness_score
    /\ normalized.items # normalized_items(all_items(batch_in), {})

\* the weights of _calculate_completeness, in hundredths of the full score
Weight ==
    [title |-> 10, url |-> 10, price |-> 15, location |-> 10, images |-> 10,
     description |-> 5, city |-> 5, district |-> 5, properties |-> 10]

\* the weighted fields item has: a field is had when it holds a value that is
\* not empty (for the price, a price or a price text)
FieldsPresent(item) ==
    {f \in DOMAIN Weight :
        CASE f = "title" -> item.title # ""
          [] f = "url" -> item.url # ""
          [] f = "price" -> \/ (item.price # Nothing /\ item.price[1] # 0)
                            \/ (item.price_text # Nothing /\ item.price_text[1] # "")
          [] f = "images" -> Len(item.images) > 0
          [] f = "properties" -> Cardinality(item.properties) > 0
          [] OTHER -> item[f] # Nothing /\ item[f][1] # ""}

RECURSIVE WeightOf(_)
WeightOf(fields) ==
    IF fields = {} THEN 0
    ELSE LET f == CHOOSE g \in fields : TRUE
         IN  Weight[f] + WeightOf(fields \ {f})

\* C12: the completeness_score of every emitted item is recomputed from the
\* fields of the item it was made from, whatever score that item came with:
\* the weights of the fields it has, summed and divided by the full score, a
\* value between 0 and 1.
C12_CompletenessRecomputed ==
    IsNormalized =>
        \A p \in FirstOfUrl :
            \E n \in DOMAIN normalized.items :
                /\ normalized.items[n].url = ItemAt(p).url
                /\ normalized.items[n].completeness_score
                     = WeightOf(FieldsPresent(ItemAt(p)))
                /\ normalized.items[n].completeness_score \in 0..100

\* an item that came with the full score and has a price, a location and an
\* image but no description is emitted with 75 hundredths
C12_Witness ==
    /\ IsNormalized
    /\ \E p \in FirstOfUrl : \E n \in DOMAIN normalized.items :
          /\ normalized.items[n].url = ItemAt(p).url
          /\ ItemAt(p).completeness_score = 100
          /\ FieldsPresent(ItemAt(p))
               = DOMAIN Weight \ {"description"}
          /\ normalized.items[n].completeness_score = 75

TextFields ==
    {"item_id", "source_site", "title", "description", "url", "price_text",
     "price_type", "location", "city", "district", "thumbnail", "crawled_at"}

\* C13 (as claimed): no emitted record has a field whose value is the empty
\* string, the empty list or the empty map.
C13_NoEmptyField ==
    IsNormalized =>
        \A n \in DOMAIN normalized.items :
            LET x == normalized.items[n] IN
            /\ \A k \in TextFields \cap DOMAIN x : x[k] # ""
            /\ "images" \in DOMAIN x => Len(x.images) > 0
            /\ "properties" \in DOMAIN x => Cardinality(x.properties) > 0

\* ------------------------------------------------------------------------
\* The chatbot and the pipeline
\* ------------------------------------------------------------------------
Replied == turn \in {"replied", "returned"}

\* the words that mark money, and the one that marks a location
MoneyMarkers == Numerals \cup Units \cup {"vam", "ghest"}
LocationMarkers == {"ekbatan"}

NoMarkers(words) ==
    \A n \in DOMAIN words : words[n] \notin MoneyMarkers \cup LocationMarkers

\* C14 (as claimed): a message without a marker of money or of a location,
\* like the greeting alone, is answered with requires_clarification true and
\* a confidence below 0.5, and without a StructuredQuery.
C14_NoMarkersAsksForClarification ==
    (Replied /\ message.is_str /\ message.words # <<>> /\ NoMarkers(message.words)) =>
        /\ response.requires_clarification
        /\ response.confidence < 5000
        /\ response.query = Nothing

\* C15: the ChatbotResponse carries a StructuredQuery exactly when it has
\* success true and requires_clarification false; and when it asks for
\* clarification no StructuredQuery was built, no search query generated and
\* no crawl started, by process_message or by the pipeline after it.
C15_QueryIffNoClarification ==
    Replied =>
        /\ response.query # Nothing
             <=> (response.success /\ ~response.requires_clarification)
        /\ response.requires_clarification =>
              /\ calls.structured_query = 0
              /\ calls.generate_queries = 0
              /\ calls.crawl = 0
              /\ turn = "returned" =>
                    {"structured_query", "search_queries", "crawl_results"}
                        \cap DOMAIN envelope = {}

\* the pipeline returned the questions for a message that states an amount,
\* from which goals had been made, and no query was built and nothing crawled
C15_Witness ==
    /\ turn = "returned"
    /\ response.requires_clarification /\ response.query = Nothing
    /\ message.is_str /\ extract_money_entities(message.words) # <<>>
    /\ calls.crawl = 0 /\ calls.structured_query = 0
    /\ envelope.success /\ "clarification_questions" \in DOMAIN envelope

FailureKeys == {"success", "message", "errors"}
ClarificationKeys ==
    {"success", "requires_clarification", "message", "clarification_questions",
     "confidence"}
ResultKeys ==
    {"success", "chatbot_response", "structured_query", "search_queries",
     "crawl_results", "summary"}

\* C16: whatever the message, the chatbot and the crawl did,
\* process_user_request returns a dictionary of one of three shapes: the
\* failure with message and errors, the clarification, or the full result;
\* what has success false has an errors list.
C16_OneOfThreeEnvelopes ==
    turn = "returned" =>
        /\ DOMAIN envelope \in {FailureKeys, ClarificationKeys, ResultKeys}
        /\ envelope.success <=> DOMAIN envelope # FailureKeys
        /\ DOMAIN envelope = ClarificationKeys => envelope.requires_clarification
        /\ DOMAIN envelope = ResultKeys =>
              /\ envelope.chatbot_response = response
              /\ response.query = Some(envelope.structured_query)

\* the chatbot built a query, the crawl raised, and the pipeline returned the
\* failure with its errors
C16_Witness ==
    /\ turn = "returned"
    /\ response.success /\ response.query # Nothing
    /\ calls.crawl = 1
    /\ ~envelope.success /\ DOMAIN envelope = FailureKeys
    /\ envelope.errors # <<>>

\* the places where the text states an amount: a numeral and a unit
MoneyMentions(words) == NumeralBefore(words, Units)

\* C20 (as claimed): primary_liquidity is the value of the first money entity,
\* by pattern and then from left to right, and the profile takes it as its
\* liquidity; a text whose one mention of money is N million has
\* primary_liquidity N and a profile with liquidity N > 0.
C20_PrimaryLiquidity ==
    (turn = "replied" /\ message.is_str) =>
        LET words == message.words
            entities == extract_all_entities(words)
            profile == build_user_profile(entities)
        IN  /\ entities.money_entities # <<>> =>
                  /\ entities.primary_liquidity = Some(entities.money_entities[1].value)
                  /\ profile.liquidity = entities.money_entities[1].value
            /\ \A n \in MoneyMentions(words) :
                  (MoneyMentions(words) = {n} /\ words[n + 1] = "milyoon") =>
                      /\ entities.primary_liquidity = Some(NumeralValue(words[n]) * 1000)
                      /\ profile.liquidity = NumeralValue(words[n]) * 1000
                      /\ profile.liquidity > 0

\* ------------------------------------------------------------------------
\* generate_queries
\* ------------------------------------------------------------------------
\* C17 (as claimed): every SearchGoal that was constructed with min_price and
\* max_price has max_price >= min_price.
C17_PriceRangeOrdered ==
    \A n \in DOMAIN search_goals :
        LET goal == search_goals[n] IN
        (goal.min_price # Nothing /\ goal.max_price # Nothing) =>
            goal.max_price[1] >= goal.min_price[1]

Generated == search_queries # Nothing

Sites == {SiteOrder[n] : n \in DOMAIN SiteOrder}

\* the pairs (goal, site) of which the site supports the type of the goal and
\* the filter map built for them is not empty
QueryPairs ==
    {p \in (DOMAIN search_goals) \X Sites :
        /\ search_goals[p[1]].type \in Supports(p[2])
        /\ DOMAIN site_filters(p[2], search_goals[p[1]]) # {}}

\* C18: generate_queries emits one SearchQuery for each pair of a goal and a
\* site that supports its type and gets a filter map that is not empty, and no
\* other; the query has the goal_id of the goal and the name of the site.
C18_OneQueryPerGoalAndSite ==
    Generated =>
        LET list == search_queries[1] IN
        /\ Len(list) = Cardinality(QueryPairs)
        /\ \A p \in QueryPairs :
              Cardinality({k \in DOMAIN list :
                  /\ list[k].goal_id = search_goals[p[1]].goal_id
                  /\ list[k].site_name = p[2]}) = 1
        /\ \A k \in DOMAIN list :
              \E p \in QueryPairs :
                  /\ list[k].goal_id = search_goals[p[1]].goal_id
                  /\ list[k].site_name = p[2]

\* two goals, one of them a vehicle purchase without price or location, which
\* the real-estate sites support but get no filter for: it has its one query,
\* for the vehicle site
C18_Witness ==
    /\ Generated /\ Len(search_goals) = 2
    /\ \E n \in DOMAIN search_goals :
          /\ search_goals[n].type = "vehicle_purchase"
          /\ <<n, "bama">> \in QueryPairs
          /\ <<n, "divar">> \notin QueryPairs
    /\ Len(search_queries[1]) >= 3

\* the integer priority of the goal a query was made for
Rank(query) ==
    CASE search_goals[query.goal_id].priority = "high" -> 3
      [] search_goals[query.goal_id].priority = "medium" -> 2
      [] OTHER -> 1

SitePosition(query) == CHOOSE n \in DOMAIN SiteOrder : SiteOrder[n] = query.site_name

\* C19: the list generate_queries returns is in descending order of the
\* integer priority, 3 for high, 2 for medium, 1 for low, and queries of one
\* priority are in the order they were made in, goal by goal and site by site.
C19_SortedByPriorityStable ==
    Generated =>
        LET list == search_queries[1] IN
        /\ \A k \in DOMAIN list : list[k].priority = Rank(list[k])
        /\ \A m, n \in DOMAIN list : m < n =>
              \/ Rank(list[m]) > Rank(list[n])
              \/ /\ Rank(list[m]) = Rank(list[n])
                 /\ \/ list[m].goal_id < list[n].goal_id
                    \/ /\ list[m].goal_id = list[n].goal_id
                       /\ SitePosition(list[m]) < SitePosition(list[n])

\* a goal of low priority before a goal of high priority, each with two
\* queries: the queries of the second goal come first
C19_Witness ==
    /\ Generated /\ Len(search_goals) = 2
    /\ search_goals[1].priority = "low" /\ search_goals[2].priority = "high"
    /\ Len(search_queries[1]) = 4
    /\ search_queries[1][1].goal_id = 2 /\ search_queries[1][2].goal_id = 2
    /\ search_queries[1][3].goal_id = 1
    /\ search_queries[1][1].priority = 3 /\ search_queries[1][4].priority = 1

\* ------------------------------------------------------------------------
\* The entities and the intent of a text
\* ------------------------------------------------------------------------
\* x/1000 for the thousand unit, x*1000 for the billion unit, x for the
\* million unit, in thousandths of a million
ValueInUnit(x, unit) ==
    CASE unit = "hezar" -> x
      [] unit = "milyard" -> x * 1000000
      [] OTHER -> x * 1000

\* C21 (as claimed): of a mention of money, a numeral x and a unit, the value
\* recorded is x/1000 for thousands, x*1000 for billions and x for millions:
\* in every money entity made of the mention, in the loan amount when the
\* mention is the one that follows the word for loan, and in the monthly
\* payment when it is the one that follows the word for installment.
C21_ValueByUnit ==
    (turn = "replied" /\ message.is_str) =>
        LET words == message.words
            entities == extract_all_entities(words)
        IN  \A n \in MoneyMentions(words) :
              LET claimed == ValueInUnit(NumeralValue(words[n]), words[n + 1]) IN
              /\ \A k \in DOMAIN entities.money_entities :
                    entities.money_entities[k].start_pos = n =>
                        entities.money_entities[k].value = claimed
              /\ ({m \in MoneyMentions(words) : m > 1 /\ words[m - 1] = "vam"} = {n}
                    /\ ~\E m \in MoneyMentions(words) :
                          m + 2 <= Len(words) /\ words[m + 2] = "vam")
                    => entities.loan_info[1] = claimed
              /\ {m \in MoneyMentions(words) : m > 1 /\ words[m - 1] = "ghest"} = {n}
                    => entities.monthly_payment = claimed

\* the words of the texts of the model that hold a keyword of an intent, or
\* take part in a pattern of one
IntentWords == {"mikhaham", "kharid", "salam"}

NoIntentScores(words) == \A n \in DOMAIN words : words[n] \notin IntentWords

\* the words of the texts of the model that are in the trigger set
TriggerWords == {"mikhaham", "kharid"}

\* what the fallback is said to return
Fallback(words) ==
    IF \E n \in DOMAIN words : words[n] \in TriggerWords
    THEN <<"search", 70>> ELSE <<"unknown", 30>>

\* C22 (as claimed): on every text on which no intent scores, classify returns
\* (SEARCH, 0.7) if the text holds a trigger word and (UNKNOWN, 0.3) if not.
C22_FallbackOnEveryText ==
    (Replied /\ message.is_str /\ NoIntentScores(message.words)) =>
        classify(message) = Fallback(message.words)

\* C22 (amended): on every text of two characters or more on which no intent
\* scores, classify returns (SEARCH, 0.7) if the text holds a trigger word and
\* (UNKNOWN, 0.3) if not; on a text that is empty or of one character it
\* returns (UNKNOWN, 0.0); and the chatbot asks for clarification, for the
\* intent is UNKNOWN in all these cases, every trigger word being a keyword
\* of SEARCH.
C22_FallbackOnTextsOfTwoCharacters ==
    (Replied /\ message.is_str /\ NoIntentScores(message.words)) =>
        /\ classify(message) =
              IF TextLen(message.words) < 2 THEN <<"unknown", 0>>
              ELSE Fallback(message.words)
        /\ classify(message)[1] = "unknown"
        /\ response.success /\ response.requires_clarification

\* a text that states an amount and holds no word of an intent was answered:
\* (UNKNOWN, 0.3), and the questions
C22_Witness ==
    /\ turn = "replied" /\ message.is_str
    /\ message.words = <<"600", "milyoon">>
    /\ classify(message) = <<"unknown", 30>>
    /\ response.requires_clarification /\ response.confidence = 3000

\* the keywords of the four rules that words of the texts hold
HoldsAny(words, keywords) == \E n \in DOMAIN words : words[n] \in keywords

RentKeywords == {"rahn"}
PurchaseKeywords == {"kharid"}
VehicleKeywords == {"mashin", "otomobil"}
LeaseKeywords == {"ghest"}

\* the rules rent, purchase, vehicle, lease in this order on the flags of the
\* text, each overwriting the type of the rules before it
TypeByRules(words) ==
    LET is_rent == HoldsAny(words, RentKeywords)
        is_purchase == HoldsAny(words, PurchaseKeywords)
        is_vehicle == HoldsAny(words, VehicleKeywords)
        is_lease == HoldsAny(words, LeaseKeywords)
        rent == IF is_rent THEN Some("residential_rent") ELSE Nothing
        purchase == IF is_purchase /\ rent = Nothing
                    THEN Some("residential_purchase") ELSE rent
        vehicle == IF is_vehicle /\ is_purchase
                   THEN Some("vehicle_purchase") ELSE purchase
    IN  IF is_lease /\ is_vehicle THEN Some("vehicle_lease") ELSE vehicle

\* C23 (as claimed): the type extract_search_type gives is the one of the rules
\* rent, purchase, vehicle, lease applied in this order to the flags of the
\* text: vehicle-lease whenever the text holds a lease keyword and a vehicle
\* keyword, vehicle-purchase whenever it holds a vehicle keyword and a
\* purchase keyword and no lease keyword.
C23_TypeByRulesInOrder ==
    (turn = "replied" /\ message.is_str) =>
        LET words == message.words
            type == extract_search_type(words).type
        IN  /\ type = TypeByRules(words)
            /\ (HoldsAny(words, LeaseKeywords) /\ HoldsAny(words, VehicleKeywords))
                  => type = Some("vehicle_lease")
            /\ (HoldsAny(words, VehicleKeywords) /\ HoldsAny(words, PurchaseKeywords)
                  /\ ~HoldsAny(words, LeaseKeywords))
                  => type = Some("vehicle_purchase")

\* the budget source by the rule of the claim
SourceByProfile(profile) ==
    IF profile.liquidity > 0 /\ profile.loan_amount > 0 THEN "liquidity + loan"
    ELSE IF profile.loan_amount > 0 THEN "loan"
    ELSE IF profile.max_monthly_payment > 0 /\ profile.liquidity = 0
         THEN "monthly_payment"
    ELSE "liquidity"

\* C24 (as claimed): every goal build_search_goals makes has the budget source
\* liquidity + loan when liquidity and loan amount are positive, loan when of
\* the two the loan amount alone is, monthly_payment when the monthly payment
\* is positive and neither of the two is, and liquidity in every other case.
C24_BudgetSourceByProfile ==
    (turn = "replied" /\ message.is_str) =>
        LET nlu_result == process(message)
        IN  \A n \in DOMAIN nlu_result.search_goals :
                nlu_result.search_goals[n].budget_source =
                    SourceByProfile(nlu_result.user_profile)

LocationKeywords == {"tehran", "ekbatan"}

\* C25: build_search_goals returns a list that is not empty: a goal for each
\* location found in the text, each location once, or one goal without
\* location when none is found; the goal_ids are 1, 2, ... in the order of the
\* list, the first goal has priority high and the others medium, in either
\* order the locations come in.
C25_OneGoalPerLocation ==
    (turn = "replied" /\ message.is_str) =>
        LET goals == process(message).search_goals
            found == {w \in LocationKeywords : Contains(message.words, w)}
        IN  /\ goals # <<>>
            /\ found = {} => Len(goals) = 1 /\ goals[1].target_location = ""
            /\ found # {} =>
                  /\ Len(goals) = Cardinality(found)
                  /\ {goals[n].target_location : n \in DOMAIN goals} = found
            /\ \A n \in DOMAIN goals :
                  /\ goals[n].goal_id = n
                  /\ goals[n].priority = IF n = 1 THEN "high" ELSE "medium"
            /\ response.query # Nothing => response.query[1].search_goals = goals

\* a text with both locations was answered with a query of two goals, the
\* second location of the keyword list first
C25_Witness ==
    /\ turn = "replied" /\ message.is_str
    /\ Contains(message.words, "tehran") /\ Contains(message.words, "ekbatan")
    /\ response.query # Nothing
    /\ Len(response.query[1].search_goals) = 2
    /\ response.query[1].search_goals[1].target_location = "ekbatan"
    /\ response.query[1].search_goals[2].priority = "medium"

\* ------------------------------------------------------------------------
\* The filters of the queries
\* ------------------------------------------------------------------------
RealEstateSites == {"divar", "sheypoor"}

\* C26 (as claimed): in the filters of a query for a real-estate site,
\* price_min is the min_price of the goal whenever the goal has one, 0
\* included; it is 0.8 x max_price when the goal has no min_price and has a
\* max_price; and there is none when the goal has neither.
C26_PriceMinOfGoal ==
    Generated =>
        \A k \in DOMAIN search_queries[1] :
            LET query == search_queries[1][k]
                goal == search_goals[query.goal_id]
            IN  query.site_name \in RealEstateSites =>
                  /\ goal.min_price # Nothing =>
                        /\ "price_min" \in DOMAIN query.filters
                        /\ query.filters.price_min * 1000 = goal.min_price[1]
                  /\ (goal.min_price = Nothing /\ goal.max_price # Nothing) =>
                        /\ "price_min" \in DOMAIN query.filters
                        /\ query.filters.price_min * 10000 = goal.max_price[1] * 8
                  /\ (goal.min_price = Nothing /\ goal.max_price = Nothing) =>
                        "price_min" \notin DOMAIN query.filters

\* C30 (as claimed): every query for a real-estate site has a category filter,
\* the one of the type of its goal, apartment-rent for residential_rent and
\* apartment-sell for residential_purchase, so that the category of the URL
\* the adapter builds is the one of the filter and not the adapter's default;
\* for every type the sites support, vehicle_purchase too.
C30_CategoryOfGoalType ==
    Generated =>
        \A k \in DOMAIN search_queries[1] :
            LET query == search_queries[1][k]
                goal == search_goals[query.goal_id]
            IN  query.site_name \in RealEstateSites =>
                  /\ "category" \in DOMAIN query.filters
                  /\ goal.type = "residential_rent" =>
                        url_category(query.filters) = "apartment-rent"
                  /\ goal.type = "residential_purchase" =>
                        url_category(query.filters) = "apartment-sell"
                  /\ goal.type = "vehicle_purchase" =>
                        url_category(query.filters) # "apartment-rent"

\* ------------------------------------------------------------------------
\* The success of the normalized result
\* ------------------------------------------------------------------------
\* C29: the dictionary normalize_batch returns has success true for every
\* CrawlBatchResult, whatever the success of the batch, which is that of any
\* of its results; when no result succeeded, and when there is no result, it
\* has success true, total_items 0 and no item.
C29_NormalizedSuccessAlways ==
    IsNormalized =>
        /\ normalized.success
        /\ ~AnySuccess(batch_in) =>
              /\ normalized.total_items = 0
              /\ normalized.items = <<>>
              /\ normalized.sources = {}

\* a batch of two failed results, one of them with an item, was normalized:
\* success true and no items
C29_Witness ==
    /\ IsNormalized
    /\ Len(batch_in) = 2 /\ ~AnySuccess(batch_in)
    /\ ItemCount(batch_in) > 0
    /\ normalized.success /\ normalized.total_items = 0

\* ------------------------------------------------------------------------
\* The browser of a crawler in a parallel batch
\* ------------------------------------------------------------------------
\* the tasks that hold a browser between driver.get and driver.page_source
AtBrowser(b) ==
    {i \in Requests : tasks[i].pc \in {"get", "page_source"} /\ tasks[i].drv = b}

\* C27: in a parallel batch no two running tasks navigate or read the same
\* browser instance at the same time, the content a task has fetched is the
\* page of the url it requested itself, and every item of its result, tagged
\* with its goal_id, was extracted from that page.
C27_TaskReadsItsOwnPage ==
    parallel =>
        /\ \A b \in DOMAIN browsers : Cardinality(AtBrowser(b)) <= 1
        /\ \A i \in Requests :
              /\ tasks[i].html \in {None, i}
              /\ \A n \in DOMAIN tasks[i].res.items :
                    /\ tasks[i].res.items[n].goal_id = i
                    /\ tasks[i].res.items[n].page = i

\* ------------------------------------------------------------------------
\* The conversation history of a session
\* ------------------------------------------------------------------------
\* the entries the session had are the first entries it has after the step
EntriesKept(session) ==
    LET old == History(conversation_history, session)
        new == History(conversation_history', session)
    IN  /\ Len(new) >= Len(old)
        /\ \A n \in DOMAIN old : new[n] = old[n]

\* the number of entries the step added to the session
EntriesAdded(session) ==
    Len(History(conversation_history', session))
        - Len(History(conversation_history, session))

\* the step is a process_message call that appends to the session
AppendsTo(session) ==
    /\ request'.session_id = Some(session)
    /\ response'.query # Nothing

\* C28: a process_message call, with or without a session id and a context,
\* leaves every entry of every session as it was, and adds one entry to the
\* session it was given when it built a StructuredQuery and none otherwise;
\* only a clear_session call removes entries.
C28_HistoryAppendOnly ==
    [][/\ request'.op = "process_message" =>
            \A s \in SessionIds :
                /\ EntriesKept(s)
                /\ EntriesAdded(s) = IF AppendsTo(s) THEN 1 ELSE 0
       /\ (\E s \in SessionIds : ~EntriesKept(s)) => request'.op = "clear_session"
      ]_vars

====
